---- MODULE Spec2Model ----
(***************************************************************************)
(* FormGenius: the form field resolution and filling engine.               *)
(*                                                                         *)
(*   SpecGen   DataGenerator.generate_form_data (data_generator.py)        *)
(*   SpecAuth  MicrosoftAuthenticator (microsoft_auth.py)                  *)
(*   SpecFill  FormGeniusAgent._fill_form_fields (agent.py)                *)
(*   SpecAgent FormGeniusAgent.fill_form / batch_fill_forms and            *)
(*             PlaywrightMCPClient.initialize / cleanup                    *)
(*   SpecFiller   PlaywrightMCPClient: the select, checkbox, date and      *)
(*                time fillers (playwright_mcp.py)                         *)
(*   SpecClass    DataGenerator._determine_data_type                       *)
(*   SpecAI       AIService.batch_generate_field_values and                *)
(*                generate_field_value (ai_service.py)                     *)
(*   SpecInvalid  DataGenerator.generate_invalid_data                      *)
(*   SpecStrategy DataGenerator._generate_checkbox_value and               *)
(*                _generate_password                                       *)
(*   SpecMetrics  AIService._call_gemini and get_api_usage_metrics         *)
(*   SpecForms    FormGeniusAgent.fill_form: the loop over the forms       *)
(*                                                                         *)
(* Python strings whose content the code inspects (substring tests,        *)
(* split, lower) are sequences of one-character strings.  Values that the  *)
(* code only stores and compares are TLA+ strings.                         *)
(***************************************************************************)
EXTENDS Integers, Sequences, FiniteSets, TLC

VARIABLES
    \* ---- DataGenerator.generate_form_data
    form,           \* form['fields']: sequence of field records
    creds,          \* page_context['credentials']: sequence of [type, value]
    aiAvailable,    \* AIService.is_available()
    gpc,            \* position inside generate_form_data
    gi,             \* index of the field the for-loop is at (1-based)
    batch_results,  \* the map returned by batch_generate_field_values
    form_data,      \* the map being built and returned
    aiCalls,        \* AIService methods called so far, in order
    \* ---- MicrosoftAuthenticator
    apc,              \* position inside authenticate(); "idle" between calls
    is_authenticated, \* self.is_authenticated
    stateFile,        \* auth_state.json: 0 when absent, else the number of the
                      \* authenticate() call that wrote it
    cacheFile,        \* auth_cache.json: [auth, expiry]; auth = 0 when absent
    now,              \* datetime.now(), in days
    authSeq,          \* number of authenticate() calls started
    page_url,         \* page.url
    two_fa_detected,  \* _handle_2fa's flag, for the call in progress or last made
    pollIter,         \* iterations of the poll loop begun
    pollSleeps,       \* asyncio.sleep(5) calls made by the poll loop
    pollOutcome,      \* "none" | "authenticated" | "timeout"
    pollSeen,         \* what the page showed over the iterations made:
                      \* the URLs, whether a second-factor selector was
                      \* visible in all of them, whether a success marker
                      \* was present in any, and both for the last one
    authResult,       \* what the last authenticate() returned
    lastCall,         \* the call that returned last: "authenticate",
                      \* "logout", or "none" before the first
    \* ---- FormGeniusAgent._fill_form_fields
    explicitData,   \* per field of the form, the value the caller of
                    \* fill_form supplied for it (form_data argument)
    fValues,        \* per field of the form, form_data.get(field_name)
    fi,             \* index of the field the for-loop is at
    fpc,            \* "loop" | "done" ("idle" when not in use)
    filled_fields,  \* the fields appended to filled_fields, in order
    errors,         \* the fields an error string was recorded for, in order
    fillResult,     \* the dict _fill_form_fields returns
    pageState,      \* per field, what the page's control holds
    applyLog,       \* per field, what happened to it: "pending", "skipped"
                    \* (never handed to fill_field), "applied", "failed"
    \* ---- FormGeniusAgent.batch_fill_forms / fill_form, PlaywrightMCPClient
    nUrls,          \* len(urls)
    bi,             \* index of the URL the for-loop is at
    bpc,            \* position inside batch_fill_forms / fill_form
    res,            \* the client's handles: per resource "none" (None),
                    \* "open" or "closed"
    pending,        \* the result fill_form is about to return
    report,         \* batch_results of batch_fill_forms
    \* ---- PlaywrightMCPClient: the typed field fillers
    pwType,         \* field['type'] of the field being filled
    pwOptions,      \* field['options'] (select fields)
    pwValue,        \* the value to fill, as str(value)
    pwTruthy,       \* bool(value)
    pwIssued,       \* the page commands issued, in order
    pwTier,         \* the matching strategy that selected the option (0: none)
    pwReturn,       \* what the filler returned
    pwpc,           \* "call" | "returned" ("idle" when not in use)
    \* ---- DataGenerator._determine_data_type
    argType,     \* the three arguments
    argLabel,
    argName,
    classified,      \* what it returned
    dpc,            \* "call" | "returned" ("idle" when not in use)
    \* ---- AIService.batch_generate_field_values / generate_field_value
    aiOp,           \* which of the two is called: "batch" | "single"
    available,      \* is_available()
    aiFields,       \* the fields argument of the batch call
    response,       \* what _call_gemini returned to the batch call
    aiFailure,      \* the internal failure that happened, "none" if none
    aiTried,        \* the parsing approaches that were started
    aiParsedBy,     \* the approach that produced the result (0: none)
    aiResult,       \* what the call returned, or that it raised
    aipc,           \* "call" | "parse" | "returned" ("idle" when not in use)
    \* ---- DataGenerator.generate_invalid_data (it runs on form, creds,
    \*      aiAvailable, gpc and gi as well)
    scenario,       \* the scenario argument
    invalid_data,   \* the map being built
    invSource,      \* per key of invalid_data, where its value came from:
                    \* "ai", "scenario" (the scenario's override) or
                    \* "normal" (_generate_field_value)
    \* ---- DataGenerator: the strategies called on their own
    stField,        \* the field argument
    stOut,          \* what the strategy returned, or that it raised
    stpc,           \* "call" | "returned" ("idle" when not in use)
    \* ---- AIService._call_gemini / get_api_usage_metrics
    api_call_count,   \* self.api_call_count
    batch_call_count, \* self.batch_call_count
    api_call_history, \* self.api_call_history: sequence of call_info records
    last_call_time,   \* self.last_call_time: the number of the call that set
                      \* it last, 0 for None
    inflight,         \* the calls waiting for the executor: indices into
                      \* api_call_history
    usage,            \* what get_api_usage_metrics returned last
    \* ---- FormGeniusAgent.fill_form: the loop over the forms of a page
    mfForms,        \* forms: per form found on the page, its field names
    mfFormData,     \* the local form_data: the caller's argument at first
    mfScenarios,    \* len(test_scenarios or ['happy_path'])
    mfResults,      \* results: per scenario run, the form and the map used
    mfi,            \* index of the form the for-loop is at
    mfpc            \* "loop" | "done" | "no_forms" ("idle" when not in use)

genVars == <<form, creds, aiAvailable, gpc, gi, batch_results, form_data, aiCalls>>

authVars == <<apc, is_authenticated, stateFile, cacheFile, now, authSeq,
              page_url, two_fa_detected, pollIter, pollSleeps, pollOutcome,
              pollSeen, authResult, lastCall>>

fillVars == <<explicitData, fValues, fi, fpc, filled_fields, errors, fillResult, pageState,
              applyLog>>

agentVars == <<nUrls, bi, bpc, res, pending, report>>

fillerVars == <<pwType, pwOptions, pwValue, pwTruthy, pwIssued, pwTier, pwReturn, pwpc>>

classVars == <<argType, argLabel, argName, classified, dpc>>

aiVars == <<aiOp, available, aiFields, response, aiFailure, aiTried, aiParsedBy,
            aiResult, aipc>>

invVars == <<scenario, invalid_data, invSource>>

stVars == <<stField, stOut, stpc>>

mtVars == <<api_call_count, batch_call_count, api_call_history, last_call_time, inflight, usage>>

mfVars == <<mfForms, mfFormData, mfScenarios, mfResults, mfi, mfpc>>

\* What the actions of one component leave alone.
genOthers == <<mfVars, mtVars, stVars, authVars, fillVars, agentVars, fillerVars, classVars, aiVars, invVars>>
authOthers == <<mfVars, mtVars, stVars, genVars, fillVars, agentVars, fillerVars, classVars, aiVars, invVars>>
fillOthers == <<mfVars, mtVars, stVars, genVars, authVars, agentVars, fillerVars, classVars, aiVars, invVars>>
agentOthers == <<mfVars, mtVars, stVars, genVars, authVars, fillVars, fillerVars, classVars, aiVars, invVars>>
fillerOthers == <<mfVars, mtVars, stVars, genVars, authVars, fillVars, agentVars, classVars, aiVars, invVars>>
classOthers == <<mfVars, mtVars, stVars, genVars, authVars, fillVars, agentVars, fillerVars, aiVars, invVars>>
aiOthers == <<mfVars, mtVars, stVars, genVars, authVars, fillVars, agentVars, fillerVars, classVars,
             invVars>>
stOthers == <<mfVars, mtVars, genVars, authVars, fillVars, agentVars, fillerVars, classVars, aiVars, invVars>>
mtOthers == <<mfVars, genVars, authVars, fillVars, agentVars, fillerVars, classVars, aiVars, invVars, stVars>>
mfOthers == <<genVars, authVars, fillVars, agentVars, fillerVars, classVars, aiVars, invVars, stVars, mtVars>>
invOthers == <<mfVars, mtVars, stVars, authVars, fillVars, agentVars, fillerVars, classVars, aiVars,
              batch_results, form_data, aiCalls>>

----------------------------------------------------------------------------
(* Python string helpers *)

\* Python's None where a string is expected (a one-element sequence holding
\* a token no character equals).
NoneStr == <<"<None>">>

UpperChars == <<"A","B","C","D","E","F","G","H","I","J","K","L","M",
                "N","O","P","Q","R","S","T","U","V","W","X","Y","Z">>
LowerChars == <<"a","b","c","d","e","f","g","h","i","j","k","l","m",
                "n","o","p","q","r","s","t","u","v","w","x","y","z">>

LowerChar(c) ==
    IF \E k \in 1..Len(UpperChars) : UpperChars[k] = c
    THEN LowerChars[CHOOSE k \in 1..Len(UpperChars) : UpperChars[k] = c]
    ELSE c

\* str.lower()
Lower(s) == [k \in 1..Len(s) |-> LowerChar(s[k])]

\* `sub in s`
Contains(sub, s) ==
    \E k \in 0..(Len(s) - Len(sub)) : SubSeq(s, k + 1, k + Len(sub)) = sub

\* any(keyword in s for keyword in keywords)
AnyIn(keywords, s) == \E k \in 1..Len(keywords) : Contains(keywords[k], s)

\* truthiness of an Optional[str]
Truthy(s) == s # NoneStr /\ s # <<>>

\* `a or b` on Optional[str]
OrElse(a, b) == IF Truthy(a) THEN a ELSE b

----------------------------------------------------------------------------
(* String literals of data_generator.py, as character sequences *)

s_username == <<"u","s","e","r","n","a","m","e">>
s_user == <<"u","s","e","r">>
s_login == <<"l","o","g","i","n">>
s_email == <<"e","m","a","i","l">>
s_password == <<"p","a","s","s","w","o","r","d">>
s_e_mail == <<"e","-","m","a","i","l">>
s_pwd == <<"p","w","d">>
s_phone == <<"p","h","o","n","e">>
s_tel == <<"t","e","l">>
s_mobile == <<"m","o","b","i","l","e">>
s_name == <<"n","a","m","e">>
s_first == <<"f","i","r","s","t">>
s_last == <<"l","a","s","t">>
s_full == <<"f","u","l","l">>
s_date == <<"d","a","t","e">>
s_birth == <<"b","i","r","t","h">>
s_dob == <<"d","o","b">>
s_age == <<"a","g","e">>
s_year == <<"y","e","a","r">>
s_number == <<"n","u","m","b","e","r">>
s_amount == <<"a","m","o","u","n","t">>
s_website == <<"w","e","b","s","i","t","e">>
s_url == <<"u","r","l">>
s_link == <<"l","i","n","k">>
s_message == <<"m","e","s","s","a","g","e">>
s_comment == <<"c","o","m","m","e","n","t">>
s_description == <<"d","e","s","c","r","i","p","t","i","o","n">>
s_space == <<" ">>
s_choose == <<"c","h","o","o","s","e">>
s_select == <<"s","e","l","e","c","t">>
s_field_ == <<"f","i","e","l","d","_">>
DigitChars == <<"0","1","2","3","4","5","6","7","8","9">>

----------------------------------------------------------------------------
(* Fields, as FormDetector._analyze_field produces them.  name and id are   *)
(* element.get('name') / element.get('id'): None when the attribute is      *)
(* missing.  minlength / maxlength are constraints; Absent when not set.    *)

Absent == -1

Field(name, id, type, label, required, minlength, maxlength) ==
    [name |-> name, id |-> id, type |-> type, label |-> label,
     required |-> required, minlength |-> minlength, maxlength |-> maxlength]

SetMin(S) == CHOOSE x \in S : \A y \in S : x <= y

IsSpace(c) == c = " "

\* str.strip()
Strip(s) ==
    LET keep == {k \in 1..Len(s) : ~IsSpace(s[k])} IN
    IF keep = {} THEN <<>>
    ELSE SubSeq(s, SetMin(keep), CHOOSE k \in keep : \A j \in keep : j <= k)

\* An <option>: {'value': ..., 'text': ...} as FormDetector builds it.
Option(value, text) == [value |-> value, text |-> text]

O_placeholder == Option(<<>>, <<"S","e","l","e","c","t">>)
O_us == Option(<<"u","s">>, <<"U","n","i","t","e","d"," ","S","t","a","t","e","s">>)
O_ca == Option(<<"c","a">>, <<"C","a","n","a","d","a">>)
O_blank == Option(<<>>, <<>>)
O_choose == Option(<<"s","e","l","e","c","t">>, <<"C","h","o","o","s","e"," ","o","n","e">>)
O_pick == Option(<<"p","i","c","k">>, <<"P","i","c","k"," ","o","n","e">>)
O_dashes == Option(<<"-","-","-">>, <<"-","-","-">>)

\* A <select>: a field with its options.
SelectField(name, label, options) ==
    [name |-> name, id |-> NoneStr, type |-> "select", label |-> label,
     required |-> FALSE, minlength |-> Absent, maxlength |-> Absent,
     options |-> options]

\* <input name="user_id" id="uid"> labelled "Username"
F_user == Field(<<"u","s","e","r","_","i","d">>, <<"u","i","d">>, "text",
                <<"U","s","e","r","n","a","m","e">>, TRUE, Absent, Absent)
\* <input type="password" name="password" minlength=8 maxlength=9>
F_pass == Field(s_password, NoneStr, "password",
                <<"U","s","e","r"," ","p","a","s","s","w","o","r","d">>,
                TRUE, 8, 9)
\* <textarea> with neither a name nor an id
F_anon == Field(NoneStr, NoneStr, "textarea",
                <<"C","o","m","m","e","n","t">>, FALSE, Absent, Absent)
\* <input type="number" id="qty"> with no name attribute
F_idonly == Field(NoneStr, <<"q","t","y">>, "number",
                  <<"Q","t","y">>, FALSE, Absent, Absent)
\* <input type="password" name="pin" maxlength=6>
F_pin == Field(<<"p","i","n">>, NoneStr, "password",
               <<"P","I","N">>, FALSE, Absent, 6)

\* <select name="country"> and <select name="region">, each with a
\* placeholder option and two countries
F_country == SelectField(<<"c","o","u","n","t","r","y">>, <<"C","o","u","n","t","r","y">>, <<O_placeholder, O_us, O_ca>>)
F_region == SelectField(<<"r","e","g","i","o","n">>, <<"R","e","g","i","o","n">>, <<O_placeholder, O_ca, O_us>>)

FieldUniverse == {F_user, F_pass, F_anon, F_idonly, F_pin, F_country, F_region}

\* The largest form of the model.
MaxFields == 3

\* Sequences of distinct fields, up to MaxFields long.
Forms ==
    UNION {{f \in [1..n -> FieldUniverse] :
              \A a, b \in 1..n : a # b => f[a] # f[b]} : n \in 0..MaxFields}

\* Credential hints found on the page: cred['type'], cred['value'].
C_username == [type |-> s_username, value |-> "admin"]
C_password == [type |-> s_password, value |-> "s3cret"]

CredentialLists ==
    {<<>>, <<C_username>>, <<C_password>>,
     <<C_username, C_password>>, <<C_password, C_username>>}

\* A resolved value: the text, and for a random password its length.
Value(text, len) == [text |-> text, len |-> len]
\* Python's None where a value is expected.
NoValue == Value("<None>", 0)

----------------------------------------------------------------------------
(* DataGenerator *)

\* field.get('name') or field.get('id')
FieldName(field) == OrElse(field.name, field.id)

\* A variant of _determine_data_type that scans the name keywords first.
DetermineDataTypeNameFirst(field_type, field_label, field_name) ==
    LET combined_text == Lower(field_label \o s_space \o field_name) IN
    IF field_type \in {"email"} THEN "email"
    ELSE IF field_type \in {"password"} THEN "password"
    ELSE IF field_type \in {"tel", "phone"} THEN "phone"
    ELSE IF field_type \in {"date", "datetime-local"} THEN "date"
    ELSE IF field_type \in {"time"} THEN "time"
    ELSE IF field_type \in {"number", "range"} THEN "number"
    ELSE IF field_type \in {"url"} THEN "url"
    ELSE IF field_type \in {"file"} THEN "file"
    ELSE IF field_type \in {"select", "select-one"} THEN "select"
    ELSE IF field_type \in {"checkbox"} THEN "checkbox"
    ELSE IF field_type \in {"radio"} THEN "radio"
    ELSE IF field_type \in {"textarea"} THEN "textarea"
    ELSE IF AnyIn(<<s_name, s_first, s_last, s_full>>, combined_text) THEN "name"
    ELSE IF AnyIn(<<s_email, s_e_mail>>, combined_text) THEN "email"
    ELSE IF AnyIn(<<s_password, s_pwd>>, combined_text) THEN "password"
    ELSE IF AnyIn(<<s_phone, s_tel, s_mobile>>, combined_text) THEN "phone"
    ELSE IF AnyIn(<<s_date, s_birth, s_dob>>, combined_text) THEN "date"
    ELSE IF AnyIn(<<s_age, s_year, s_number, s_amount>>, combined_text) THEN "number"
    ELSE IF AnyIn(<<s_website, s_url, s_link>>, combined_text) THEN "url"
    ELSE IF AnyIn(<<s_message, s_comment, s_description>>, combined_text) THEN "textarea"
    ELSE "text"

\* _determine_data_type(field_type, field_label, field_name)
DetermineDataType(field_type, field_label, field_name) ==
    LET combined_text == Lower(field_label \o s_space \o field_name) IN
    IF field_type \in {"email"} THEN "email"
    ELSE IF field_type \in {"password"} THEN "password"
    ELSE IF field_type \in {"tel", "phone"} THEN "phone"
    ELSE IF field_type \in {"date", "datetime-local"} THEN "date"
    ELSE IF field_type \in {"time"} THEN "time"
    ELSE IF field_type \in {"number", "range"} THEN "number"
    ELSE IF field_type \in {"url"} THEN "url"
    ELSE IF field_type \in {"file"} THEN "file"
    ELSE IF field_type \in {"select", "select-one"} THEN "select"
    ELSE IF field_type \in {"checkbox"} THEN "checkbox"
    ELSE IF field_type \in {"radio"} THEN "radio"
    ELSE IF field_type \in {"textarea"} THEN "textarea"
    ELSE IF AnyIn(<<s_email, s_e_mail>>, combined_text) THEN "email"
    ELSE IF AnyIn(<<s_password, s_pwd>>, combined_text) THEN "password"
    ELSE IF AnyIn(<<s_phone, s_tel, s_mobile>>, combined_text) THEN "phone"
    ELSE IF AnyIn(<<s_name, s_first, s_last, s_full>>, combined_text) THEN "name"
    ELSE IF AnyIn(<<s_date, s_birth, s_dob>>, combined_text) THEN "date"
    ELSE IF AnyIn(<<s_age, s_year, s_number, s_amount>>, combined_text) THEN "number"
    ELSE IF AnyIn(<<s_website, s_url, s_link>>, combined_text) THEN "url"
    ELSE IF AnyIn(<<s_message, s_comment, s_description>>, combined_text) THEN "textarea"
    ELSE "text"

Max(a, b) == IF a >= b THEN a ELSE b
Min(a, b) == IF a <= b THEN a ELSE b

\* _generate_password: the lengths random.randint(max(min_length, 8),
\* min(max_length, 20)) can return; empty when randint raises ValueError.
PasswordLengths(field) ==
    LET min_length == IF field.minlength = Absent THEN 8 ELSE field.minlength
        max_length == IF field.maxlength = Absent THEN 20 ELSE field.maxlength
    IN  Max(min_length, 8) .. Min(max_length, 20)

\* What `await strategy(field)` can do for the strategy registered under
\* data_type: the set of values it can return; empty when it raises.
StrategyValues(data_type, field) ==
    IF data_type = "password"
    THEN {Value("<password>", n) : n \in PasswordLengths(field)}
    ELSE {Value(data_type, 0)}

\* The credential loop of _generate_field_value: the indices of the hints
\* whose branch returns for this field.
CredentialHits(field, credentials) ==
    LET field_key == Lower(Lower(field.name) \o s_space \o Lower(field.label)) IN
    {c \in 1..Len(credentials) :
        LET cred_type == Lower(credentials[c].type) IN
        \/ /\ (Contains(s_username, cred_type) \/ Contains(s_user, cred_type))
           /\ AnyIn(<<s_username, s_user, s_login, s_email>>, field_key)
        \/ /\ Contains(s_password, cred_type)
           /\ Contains(s_password, field_key)}

\* _generate_select_value, lines 402-412: the options left after the empty
\* values and the placeholder texts are filtered out.
ValidOptions(options) ==
    LET Valid(opt) ==
            /\ Truthy(Strip(opt.value))
            /\ ~AnyIn(<<s_select, s_choose, <<"p","i","c","k">>, <<"p","l","e","a","s","e">>, <<"-","-","-">>, <<"-","-">>>>,
                      Lower(Strip(opt.text)))
    IN  SelectSeq(options, Valid)

\* The AIService methods _generate_field_value calls for the field, in
\* order: the select strategy asks the service to pick an option (lines
\* 420-423) when the service is available and a valid option exists.
StrategyCalls(field, credentials, ai) ==
    IF field.name = NoneStr \/ CredentialHits(field, credentials) # {} THEN <<>>
    ELSE IF /\ DetermineDataType(field.type, Lower(field.label), Lower(field.name)) = "select"
            /\ ai
            /\ ValidOptions(field.options) # <<>>
    THEN <<"generate_intelligent_option_selection">>
    ELSE <<>>

\* _generate_field_value(field, page_context): the outcomes it can have.
\*   [kind |-> "raise"]         the call raises (None.lower() on a field
\*                              whose name attribute is missing)
\*   [kind |-> "none"]          the strategy raised; logged, None returned
\*   [kind |-> "value", v |-> ] a value is returned
GenerateFieldValue(field, credentials) ==
    IF field.name = NoneStr
    THEN {[kind |-> "raise", v |-> NoValue]}
    ELSE IF CredentialHits(field, credentials) # {}
    THEN {[kind |-> "value",
           v |-> Value(credentials[SetMin(CredentialHits(field, credentials))].value, 0)]}
    ELSE LET data_type == DetermineDataType(field.type, Lower(field.label), Lower(field.name))
             vals == StrategyValues(data_type, field)
         IN  IF vals = {} THEN {[kind |-> "none", v |-> NoValue]}
             ELSE {[kind |-> "value", v |-> x] : x \in vals}

\* The key batch_generate_field_values files field number i (1-based) under:
\* field_name or field_id or f"field_{i}", i counted from 0.
FieldIdForMapping(fields, i) ==
    OrElse(OrElse(fields[i].name, fields[i].id), s_field_ \o <<DigitChars[i]>>)

\* The maps batch_generate_field_values can return for `fields`: the model's
\* response (if any, and if it parses) gives a value for any subset of the
\* fields; an unusable response gives the empty map.
BatchValue == Value("ai_value", 0)

BatchGenerateFieldValues(fields) ==
    {[k \in {FieldIdForMapping(fields, i) : i \in S} |-> BatchValue] :
        S \in SUBSET (1..Len(fields))}

\* dict[key] = value
Put(map, key, value) ==
    [k \in DOMAIN map \cup {key} |-> IF k = key THEN value ELSE map[k]]

EmptyMap == [k \in {} |-> NoValue]

\* generate_form_data, lines 61-79: the calls made on the AI service before
\* the loop over the fields.
GenCallAI ==
    /\ UNCHANGED genOthers
    /\ gpc = "start"
    /\ aiAvailable
    /\ \E r \in BatchGenerateFieldValues(form) : batch_results' = r
    /\ aiCalls' = aiCalls \o <<"analyze_form_context", "batch_generate_field_values">>
    /\ gpc' = "loop"
    /\ UNCHANGED <<form, creds, aiAvailable, gi, form_data>>

\* generate_form_data, lines 107-109: no AI service.
GenNoAI ==
    /\ UNCHANGED genOthers
    /\ gpc = "start"
    /\ ~aiAvailable
    /\ gpc' = "loop"
    /\ UNCHANGED <<form, creds, aiAvailable, gi, batch_results, form_data, aiCalls>>

\* One iteration of the loop over form['fields'] (lines 82-95, 99-106 and
\* 110-117: the three loops differ only in the batch lookup).
GenField ==
    /\ UNCHANGED genOthers
    /\ gpc = "loop"
    /\ gi <= Len(form)
    /\ LET field == form[gi]
           field_name == FieldName(field)
       IN  IF ~Truthy(field_name)
           THEN /\ gi' = gi + 1
                /\ UNCHANGED <<gpc, form_data, aiCalls>>
           ELSE IF aiAvailable /\ DOMAIN batch_results # {}
                   /\ field_name \in DOMAIN batch_results
           THEN /\ form_data' = Put(form_data, field_name, batch_results[field_name])
                /\ gi' = gi + 1
                /\ UNCHANGED <<gpc, aiCalls>>
           ELSE /\ aiCalls' = aiCalls \o StrategyCalls(field, creds, aiAvailable)
                /\ \E r \in GenerateFieldValue(field, creds) :
                      IF r.kind = "raise"
                      THEN /\ gpc' = "raised"
                           /\ UNCHANGED <<gi, form_data>>
                      ELSE /\ form_data' = IF r.kind = "value"
                                           THEN Put(form_data, field_name, r.v)
                                           ELSE form_data
                           /\ gi' = gi + 1
                           /\ UNCHANGED gpc
    /\ UNCHANGED <<form, creds, aiAvailable, batch_results>>

\* return form_data (line 119)
GenReturn ==
    /\ UNCHANGED genOthers
    /\ gpc = "loop"
    /\ gi > Len(form)
    /\ gpc' = "done"
    /\ UNCHANGED <<form, creds, aiAvailable, gi, batch_results, form_data, aiCalls>>

GenInit ==
    /\ form \in Forms
    /\ creds \in CredentialLists
    /\ aiAvailable \in BOOLEAN
    /\ gpc = "start"
    /\ gi = 1
    /\ batch_results = EmptyMap
    /\ form_data = EmptyMap
    /\ aiCalls = <<>>

GenIdle ==
    /\ form = <<>>
    /\ creds = <<>>
    /\ aiAvailable = FALSE
    /\ gpc = "idle"
    /\ gi = 1
    /\ batch_results = EmptyMap
    /\ form_data = EmptyMap
    /\ aiCalls = <<>>

GenNext == GenCallAI \/ GenNoAI \/ GenField \/ GenReturn


----------------------------------------------------------------------------
(* MicrosoftAuthenticator *)



U_mfa ==
    <<"h","t","t","p","s",":","/","/","l","o","g","i","n",".","m","i","c",
      "r","o","s","o","f","t","o","n","l","i","n","e",".","c","o","m","/",
      "m","f","a">>
U_make ==
    <<"h","t","t","p","s",":","/","/","m","a","k","e",".","p","o","w","e",
      "r","a","p","p","s",".","c","o","m","/","h","o","m","e">>
U_signin ==
    <<"h","t","t","p","s",":","/","/","a","c","c","o","u","n","t",".","l",
      "i","v","e",".","c","o","m","/","S","i","g","n","I","n">>
U_blank ==
    <<"a","b","o","u","t",":","b","l","a","n","k">>

\* The URLs the browser can be at.
URLs == {U_mfa, U_make, U_signin, U_blank}

\* success_indicators of _handle_2fa
I_make ==
    <<"*","*","/","m","a","k","e",".","p","o","w","e","r","a","p","p","s",
      ".","c","o","m","/","*","*">>
I_portal ==
    <<"*","*","/","p","o","r","t","a","l",".","o","f","f","i","c","e",".",
      "c","o","m","/","*","*">>
I_admin ==
    <<"*","*","/","a","d","m","i","n",".","m","i","c","r","o","s","o","f",
      "t",".","c","o","m","/","*","*">>
I_outlook ==
    <<"*","*","/","o","u","t","l","o","o","k",".","o","f","f","i","c","e",
      ".","c","o","m","/","*","*">>
success_indicators == <<I_make, I_portal, I_admin, I_outlook>>

s_login_marker == s_login
s_signin_marker == <<"s","i","g","n","i","n">>

\* range(60) of the poll loop
PollBound == 60
\* timedelta(days=30) of _save_auth_state
ExpiryDays == 30
\* The clock of the model stops here.
MaxNow == 32
\* authenticate() is called at most this often.
MaxAuths == 3

\* str.split(sep) for a one-character separator
RECURSIVE Split(_, _)
Split(s, sep) ==
    IF \A k \in 1..Len(s) : s[k] # sep
    THEN <<s>>
    ELSE LET k == SetMin({j \in 1..Len(s) : s[j] = sep})
         IN  <<SubSeq(s, 1, k - 1)>> \o Split(SubSeq(s, k + 1, Len(s)), sep)

\* any(part in current_url for part in indicator.split("*"))
IndicatorHit(indicator, current_url) ==
    LET parts == Split(indicator, "*")
    IN  \E k \in 1..Len(parts) : Contains(parts[k], current_url)

\* The for-loop over success_indicators (lines 179-182).
UrlIndicatesSuccess(current_url) ==
    \E k \in 1..Len(success_indicators) :
        IndicatorHit(success_indicators[k], current_url)

\* "login" in current_url.lower() or "signin" in current_url.lower()
RedirectedToLogin(current_url) ==
    \/ Contains(s_login_marker, Lower(current_url))
    \/ Contains(s_signin_marker, Lower(current_url))

NoResult == [success |-> FALSE, method |-> "none"]
Failed == [success |-> FALSE, method |-> "error"]
Cached == [success |-> TRUE, method |-> "cached"]
Fresh == [success |-> TRUE, method |-> "fresh"]

NoSeen == [urls |-> {}, allVisible |-> TRUE, anyMarker |-> FALSE,
           lastVisible |-> FALSE, lastMarker |-> FALSE]

pollVars == <<two_fa_detected, pollIter, pollSleeps, pollOutcome, pollSeen>>
fileVars == <<stateFile, cacheFile>>

\* authenticate(email, password, force_reauth), entry (lines 48-52)
AuthCall ==
    /\ UNCHANGED authOthers
    /\ apc = "idle"
    /\ authSeq < MaxAuths
    /\ authSeq' = authSeq + 1
    /\ \E force_reauth \in BOOLEAN :
          apc' = IF force_reauth THEN "fresh" ELSE "load"
    /\ two_fa_detected' = FALSE
    /\ pollIter' = 0
    /\ pollSleeps' = 0
    /\ pollOutcome' = "none"
    /\ pollSeen' = NoSeen
    /\ UNCHANGED <<is_authenticated, fileVars, now, page_url, authResult, lastCall>>

\* _load_cached_auth and the branch of authenticate() on its result.
\* `ok` is whether closing the context, creating the new one from the state
\* file and navigating went through without an exception; `u` is where the
\* validation navigation ended.
LoadCachedAuth ==
    /\ UNCHANGED authOthers
    /\ apc = "load"
    /\ IF stateFile = 0 \/ cacheFile.auth = 0
       THEN /\ apc' = "fresh"
            /\ UNCHANGED <<is_authenticated, page_url, authResult, lastCall>>
       ELSE IF now > cacheFile.expiry
       THEN /\ apc' = "fresh"
            /\ UNCHANGED <<is_authenticated, page_url, authResult, lastCall>>
       ELSE \E ok \in BOOLEAN, u \in URLs :
               IF ~ok
               THEN /\ apc' = "fresh"
                    /\ UNCHANGED <<is_authenticated, page_url, authResult, lastCall>>
               ELSE /\ page_url' = u
                    /\ IF RedirectedToLogin(u)
                       THEN /\ apc' = "fresh"
                            /\ UNCHANGED <<is_authenticated, authResult, lastCall>>
                       ELSE /\ is_authenticated' = TRUE
                            /\ authResult' = Cached
                            /\ lastCall' = "authenticate"
                            /\ apc' = "idle"
    /\ UNCHANGED <<fileVars, now, authSeq, pollVars>>

\* _perform_authentication, lines 78-94: the login form.  Any step may raise;
\* the except clause returns the failed status.
AuthSubmit ==
    /\ UNCHANGED authOthers
    /\ apc = "fresh"
    /\ \E ok \in BOOLEAN :
          IF ok
          THEN /\ apc' = "detect"
               /\ page_url' = U_mfa
               /\ UNCHANGED <<authResult, lastCall>>
          ELSE /\ apc' = "idle"
               /\ authResult' = Failed
               /\ lastCall' = "authenticate"
               /\ UNCHANGED page_url
    /\ UNCHANGED <<is_authenticated, fileVars, now, authSeq, pollVars>>

\* _handle_2fa, lines 140-152: probe the second-factor selectors.
Detect2fa ==
    /\ UNCHANGED authOthers
    /\ apc = "detect"
    /\ \E detected \in BOOLEAN :
          /\ two_fa_detected' = detected
          /\ apc' = IF detected THEN "poll" ELSE "verify"
    /\ UNCHANGED <<is_authenticated, fileVars, now, authSeq, page_url,
                   pollIter, pollSleeps, pollOutcome, pollSeen, authResult, lastCall>>

\* _handle_2fa, lines 175-212: one iteration of the poll loop, and the exit
\* of the loop when it was the last.  u, visible and marker are what the
\* page shows in this iteration.
Poll ==
    /\ UNCHANGED authOthers
    /\ apc = "poll"
    /\ pollIter < PollBound
    /\ \E u \in URLs, visible \in BOOLEAN, marker \in BOOLEAN :
          /\ page_url' = u
          /\ pollIter' = pollIter + 1
          /\ pollSeen' = [urls |-> pollSeen.urls \cup {u},
                           allVisible |-> pollSeen.allVisible /\ visible,
                           anyMarker |-> pollSeen.anyMarker \/ marker,
                           lastVisible |-> visible,
                           lastMarker |-> marker]
          /\ IF UrlIndicatesSuccess(u) \/ (~visible /\ marker)
             THEN /\ pollOutcome' = "authenticated"
                  /\ apc' = "verify"
                  /\ UNCHANGED pollSleeps
             ELSE /\ pollSleeps' = pollSleeps + 1
                  /\ IF pollIter + 1 = PollBound
                     THEN /\ pollOutcome' = "timeout"
                          /\ apc' = "verify"
                     ELSE UNCHANGED <<pollOutcome, apc>>
    /\ UNCHANGED <<is_authenticated, fileVars, now, authSeq, two_fa_detected,
                   authResult, lastCall>>

\* _perform_authentication, lines 99-103: goto Power Apps and wait_for_url.
AuthVerify ==
    /\ UNCHANGED authOthers
    /\ apc = "verify"
    /\ \E ok \in BOOLEAN :
          IF ok
          THEN /\ apc' = "save_state"
               /\ page_url' = U_make
               /\ UNCHANGED <<authResult, lastCall>>
          ELSE /\ apc' = "idle"
               /\ authResult' = Failed
               /\ lastCall' = "authenticate"
               /\ \E u \in URLs : page_url' = u
    /\ UNCHANGED <<is_authenticated, fileVars, now, authSeq, pollVars>>

\* _save_auth_state, line 223: context.storage_state(path=auth_state.json).
\* An exception ends _save_auth_state (it is logged, line 239).
SaveStateFile ==
    /\ UNCHANGED authOthers
    /\ apc = "save_state"
    /\ \E ok \in BOOLEAN :
          IF ok
          THEN /\ stateFile' = authSeq
               /\ apc' = "save_meta"
          ELSE /\ apc' = "finish"
               /\ UNCHANGED stateFile
    /\ UNCHANGED <<is_authenticated, cacheFile, now, authSeq, page_url,
                   pollVars, authResult, lastCall>>

\* _save_auth_state, lines 226-234: build the metadata and write
\* auth_cache.json.  page.evaluate may raise before the file is opened.
SaveMetadata ==
    /\ UNCHANGED authOthers
    /\ apc = "save_meta"
    /\ \E ok \in BOOLEAN :
          IF ok
          THEN cacheFile' = [auth |-> authSeq, expiry |-> now + ExpiryDays]
          ELSE UNCHANGED cacheFile
    /\ apc' = "finish"
    /\ UNCHANGED <<is_authenticated, stateFile, now, authSeq, page_url,
                   pollVars, authResult, lastCall>>

\* _perform_authentication, lines 108-114.
AuthFinish ==
    /\ UNCHANGED authOthers
    /\ apc = "finish"
    /\ is_authenticated' = TRUE
    /\ authResult' = Fresh
    /\ lastCall' = "authenticate"
    /\ apc' = "idle"
    /\ UNCHANGED <<fileVars, now, authSeq, page_url, pollVars>>

\* logout().  The navigation to the logout URL may raise; the except clause
\* then logs and returns.
Logout ==
    /\ UNCHANGED authOthers
    /\ apc = "idle"
    /\ \E ok \in BOOLEAN :
          IF is_authenticated /\ ~ok
          THEN UNCHANGED <<is_authenticated, fileVars>>
          ELSE /\ stateFile' = 0
               /\ cacheFile' = [auth |-> 0, expiry |-> 0]
               /\ is_authenticated' = FALSE
    /\ lastCall' = "logout"
    /\ UNCHANGED <<apc, now, authSeq, page_url, pollVars, authResult>>

\* Time passes between calls.
Tick ==
    /\ UNCHANGED authOthers
    /\ apc = "idle"
    /\ \E d \in {ExpiryDays, ExpiryDays + 1} :
          /\ now + d <= MaxNow
          /\ now' = now + d
    /\ UNCHANGED <<apc, is_authenticated, fileVars, authSeq, page_url,
                   pollVars, authResult, lastCall>>

AuthInit ==
    /\ apc = "idle"
    /\ is_authenticated = FALSE
    /\ stateFile = 0
    /\ cacheFile = [auth |-> 0, expiry |-> 0]
    /\ now = 0
    /\ authSeq = 0
    /\ page_url = U_blank
    /\ two_fa_detected = FALSE
    /\ pollIter = 0
    /\ pollSleeps = 0
    /\ pollOutcome = "none"
    /\ pollSeen = NoSeen
    /\ authResult = NoResult
    /\ lastCall = "none"

AuthNext ==
    \/ AuthCall \/ LoadCachedAuth \/ AuthSubmit \/ Detect2fa \/ Poll
    \/ AuthVerify \/ SaveStateFile \/ SaveMetadata \/ AuthFinish
    \/ Logout \/ Tick

----------------------------------------------------------------------------
(* FormGeniusAgent._fill_form_fields *)

\* The largest form _fill_form_fields is given.
MaxFillFields == 5

NoFillResult == [success |-> FALSE, filled_fields |-> 0, total_fields |-> 0,
                 errors |-> <<>>]

\* What `await self.playwright_client.fill_field(field, value)` can return.
\* fill_field wraps its whole body in try/except Exception and returns False
\* from the handler, so it never raises.
FillFieldReturns == {TRUE, FALSE}

\* A variant of the result in which success means that something was filled.
FillFieldsResultAnyFilled(filled, errs, total) ==
    [success |-> Len(filled) > 0,
     filled_fields |-> Len(filled),
     total_fields |-> total,
     errors |-> errs]

\* The dict built at lines 461-466.
FillFieldsResult(filled, errs, total) ==
    [success |-> Len(errs) = 0,
     filled_fields |-> Len(filled),
     total_fields |-> total,
     errors |-> errs]

\* fill_form lines 110-132: `if not form_data:` the data is generated for
\* the form (generate_form_data may leave a field without an entry);
\* otherwise the caller's data is used as it is.
ResolveFormData ==
    /\ UNCHANGED fillOthers
    /\ fpc = "resolve"
    /\ IF \A k \in 1..Len(explicitData) : explicitData[k] = "<None>"
       THEN fValues' \in [1..Len(explicitData) -> {"<None>", "generated"}]
       ELSE fValues' = explicitData
    /\ fpc' = "loop"
    /\ UNCHANGED <<explicitData, fi, filled_fields, errors, fillResult,
                   pageState, applyLog>>

\* One iteration of the loop over form['fields'] (lines 439-459).
FillField ==
    /\ UNCHANGED fillOthers
    /\ fpc = "loop"
    /\ fi <= Len(fValues)
    /\ IF fValues[fi] = "<None>"
       THEN /\ applyLog' = [applyLog EXCEPT ![fi] = "skipped"]
            /\ UNCHANGED <<filled_fields, errors, pageState>>
       ELSE \E fill_success \in FillFieldReturns :
               IF fill_success
               THEN /\ filled_fields' = Append(filled_fields, fi)
                    /\ pageState' = [pageState EXCEPT ![fi] = fValues[fi]]
                    /\ applyLog' = [applyLog EXCEPT ![fi] = "applied"]
                    /\ UNCHANGED errors
               ELSE /\ errors' = Append(errors, fi)
                    /\ applyLog' = [applyLog EXCEPT ![fi] = "failed"]
                    /\ UNCHANGED <<filled_fields, pageState>>
    /\ fi' = fi + 1
    /\ UNCHANGED <<explicitData, fValues, fpc, fillResult>>

\* return {...} (lines 461-466)
FillReturn ==
    /\ UNCHANGED fillOthers
    /\ fpc = "loop"
    /\ fi > Len(fValues)
    /\ fillResult' = FillFieldsResult(filled_fields, errors, Len(fValues))
    /\ fpc' = "done"
    /\ UNCHANGED <<explicitData, fValues, fi, filled_fields, errors, pageState,
                   applyLog>>

FillInit ==
    /\ \E n \in 0..MaxFillFields :
          explicitData \in [1..n -> {"<None>", "explicit"}]
    /\ fValues = [k \in 1..Len(explicitData) |-> "<None>"]
    /\ fi = 1
    /\ fpc = "resolve"
    /\ filled_fields = <<>>
    /\ errors = <<>>
    /\ fillResult = NoFillResult
    /\ pageState = [k \in 1..Len(fValues) |-> ""]
    /\ applyLog = [k \in 1..Len(fValues) |-> "pending"]

FillIdle ==
    /\ explicitData = <<>>
    /\ fValues = <<>>
    /\ fi = 1
    /\ fpc = "idle"
    /\ filled_fields = <<>>
    /\ errors = <<>>
    /\ fillResult = NoFillResult
    /\ pageState = <<>>
    /\ applyLog = <<>>

FillNext == ResolveFormData \/ FillField \/ FillReturn

----------------------------------------------------------------------------
(* FormGeniusAgent.batch_fill_forms and fill_form;                         *)
(* PlaywrightMCPClient.initialize and cleanup                              *)

\* batch_fill_forms is given at most this many URLs.
MaxUrls == 3

\* The client's resources in the order initialize() acquires them; new_page
\* comes between the context and the session.
AcquireOrder == <<"playwright", "browser", "context", "session">>
\* ... and in the order cleanup() releases them.
ReleaseOrder == <<"session", "context", "browser", "playwright">>

Resources == {"playwright", "browser", "context", "session"}

\* FormDetector.analyze_page_context is called by fill_form (line 88) and
\* is the page-context analyzer of the design; it returns a page context
\* or raises.
AnalyzePageContextOutcomes == {"ok", "raise"}

\* initialize() with the first k acquisitions succeeding.
Initialized(handles, k) ==
    [r \in Resources |->
        IF \E j \in 1..k : AcquireOrder[j] = r THEN "open" ELSE handles[r]]

\* cleanup(): the releases are made in order inside one try block, each only
\* if the handle is not None.  failAt is the position in ReleaseOrder of the
\* release that raises (0: none does); the except clause logs and returns.
CleanedUp(handles, failAt) ==
    [r \in Resources |->
        LET pos == CHOOSE j \in 1..Len(ReleaseOrder) : ReleaseOrder[j] = r IN
        IF handles[r] # "none" /\ (failAt = 0 \/ pos < failAt)
        THEN "closed" ELSE handles[r]]

\* A variant of the bookkeeping in which a failed fill is counted but its
\* result is not kept.
RecordResultDropFailed(b, result) ==
    [b EXCEPT !.results = IF result.success THEN Append(@, result) ELSE @,
              !.processed_urls = @ + 1,
              !.successful_fills = IF result.success THEN @ + 1 ELSE @,
              !.failed_fills = IF result.success THEN @ ELSE @ + 1]

\* Lines 283-289 of batch_fill_forms: file the result of one fill_form.
RecordResult(b, result) ==
    [b EXCEPT !.results = Append(@, result),
              !.processed_urls = @ + 1,
              !.successful_fills = IF result.success THEN @ + 1 ELSE @,
              !.failed_fills = IF result.success THEN @ ELSE @ + 1]

\* for url in urls: ... result = await self.fill_form(url, ...)
BatchNextUrl ==
    /\ UNCHANGED agentOthers
    /\ bpc = "next"
    /\ bi <= nUrls
    /\ bpc' = "initialize"
    /\ UNCHANGED <<nUrls, bi, res, pending, report>>

\* fill_form line 76: initialize().  It raises when one of its steps does:
\* k of the four handles have been set by then.
AgentInitialize ==
    /\ UNCHANGED agentOthers
    /\ bpc = "initialize"
    /\ \E k \in 0..Len(AcquireOrder) :
          /\ res' = Initialized(res, k)
          /\ IF k = Len(AcquireOrder)
             THEN /\ bpc' = "navigate"
                  /\ UNCHANGED pending
             ELSE /\ bpc' = "cleanup"
                  /\ pending' = [success |-> FALSE]
    /\ UNCHANGED <<nUrls, bi, report>>

\* fill_form lines 79-84: navigate_to never raises; a failed navigation is
\* an early return.
AgentNavigate ==
    /\ UNCHANGED agentOthers
    /\ bpc = "navigate"
    /\ \E ok \in BOOLEAN :
          IF ok
          THEN bpc' = "context" /\ UNCHANGED pending
          ELSE bpc' = "cleanup" /\ pending' = [success |-> FALSE]
    /\ UNCHANGED <<nUrls, bi, res, report>>

\* fill_form lines 88-95
AgentAnalyzeContext ==
    /\ UNCHANGED agentOthers
    /\ bpc = "context"
    /\ \E o \in AnalyzePageContextOutcomes :
          IF o = "ok"
          THEN bpc' = "detect" /\ UNCHANGED pending
          ELSE bpc' = "cleanup" /\ pending' = [success |-> FALSE]
    /\ UNCHANGED <<nUrls, bi, res, report>>

\* fill_form lines 98-171: detect_forms, then the loop over the forms.  No
\* forms is an early return with success False; an exception (detect_forms,
\* generate_form_data) is caught at line 162 and returned as success False;
\* otherwise the result has success True.
AgentProcessForms ==
    /\ UNCHANGED agentOthers
    /\ bpc = "detect"
    /\ \E o \in {"no_forms", "raise", "done"} :
          pending' = [success |-> (o = "done")]
    /\ bpc' = "cleanup"
    /\ UNCHANGED <<nUrls, bi, res, report>>

\* fill_form lines 173-174: finally: await self.playwright_client.cleanup()
AgentCleanup ==
    /\ UNCHANGED agentOthers
    /\ bpc = "cleanup"
    /\ \E failAt \in {0} \cup {j \in 1..Len(ReleaseOrder) : res[ReleaseOrder[j]] # "none"} :
          res' = CleanedUp(res, failAt)
    /\ bpc' = "record"
    /\ UNCHANGED <<nUrls, bi, pending, report>>

\* batch_fill_forms lines 283-292.  fill_form returns a dict with a
\* 'success' key on every path and never raises, so the except clause of
\* lines 294-302 is not entered.
BatchRecord ==
    /\ UNCHANGED agentOthers
    /\ bpc = "record"
    /\ report' = RecordResult(report, pending)
    /\ bi' = bi + 1
    /\ bpc' = "next"
    /\ UNCHANGED <<nUrls, res, pending>>

\* batch_fill_forms lines 304-311
BatchFinish ==
    /\ UNCHANGED agentOthers
    /\ bpc = "next"
    /\ bi > nUrls
    /\ report' = [report EXCEPT !.success = (report.failed_fills = 0)]
    /\ bpc' = "done"
    /\ UNCHANGED <<nUrls, bi, res, pending>>

NoHandles == [r \in Resources |-> "none"]

\* batch_results as initialised at lines 265-273
NewReport(n) ==
    [success |-> TRUE, total_urls |-> n, processed_urls |-> 0,
     successful_fills |-> 0, failed_fills |-> 0, results |-> <<>>]

AgentInit ==
    /\ nUrls \in 0..MaxUrls
    /\ bi = 1
    /\ bpc = "next"
    /\ res = NoHandles
    /\ pending = [success |-> FALSE]
    /\ report = NewReport(nUrls)

AgentIdle ==
    /\ nUrls = 0
    /\ bi = 1
    /\ bpc = "idle"
    /\ res = NoHandles
    /\ pending = [success |-> FALSE]
    /\ report = NewReport(0)

AgentNext ==
    \/ BatchNextUrl \/ AgentInitialize \/ AgentNavigate \/ AgentAnalyzeContext
    \/ AgentProcessForms \/ AgentCleanup \/ BatchRecord \/ BatchFinish

----------------------------------------------------------------------------
(* PlaywrightMCPClient: _fill_select_field                                 *)

OptionUniverse == {O_placeholder, O_us, O_ca, O_blank, O_choose, O_pick, O_dashes}

\* The longest option list of the model.
MaxOptions == 3

OptionLists ==
    UNION {{f \in [1..n -> OptionUniverse] :
              \A a, b \in 1..n : a # b => f[a] # f[b]} : n \in 0..MaxOptions}

V_USA == <<"U","S","A">>
V_us == <<"u","s">>
V_CANADA == <<" ","C","A","N","A","D","A"," ">>
V_nad == <<"n","a","d">>
V_canada_east == <<"c","a","n","a","d","a"," ","e","a","s","t">>
V_zz == <<"z","z">>

SelectValues == {V_USA, V_us, V_CANADA, V_nad, V_canada_east, V_zz}


\* Strategy 1 (line 207): option.get('value') == str(value)
ExactValue(option, value) == option.value = value

\* Strategy 2 (line 214): option text, lowercased and stripped, equals
\* value_str
ExactText(option, value_str) == Strip(Lower(option.text)) = value_str

\* Strategy 3 (lines 224-225)
PartialText(option, value_str) ==
    LET option_text == Strip(Lower(option.text)) IN
    Contains(value_str, option_text) \/ Contains(option_text, value_str)

\* A variant of strategy 4 that takes any option.
FirstAvailableAny(option) == TRUE

\* Strategy 4 (line 235): option.get('value') and option['value'] not in
\* ['', 'select', 'choose']
FirstAvailable(option) ==
    Truthy(option.value) /\ option.value \notin {<<>>, s_select, s_choose}

\* The page command of strategies 2 and 3 (lines 215-218, 226-229): by
\* value when the option has one, by label otherwise.
SelectByValueOrLabel(option) ==
    IF Truthy(option.value)
    THEN [op |-> "select_option", by |-> "value", arg |-> option.value]
    ELSE [op |-> "select_option", by |-> "label", arg |-> option.text]

SelectByValue(option) ==
    [op |-> "select_option", by |-> "value", arg |-> option.value]

\* The first option of the list that satisfies Hit; 0 when none does.
FirstIndex(options, Hit(_)) ==
    LET hits == {k \in 1..Len(options) : Hit(options[k])} IN
    IF hits = {} THEN 0 ELSE SetMin(hits)

\* _fill_select_field, lines 200-241: the strategy that selects and the
\* page command it issues; tier 0 when no strategy selects.
MatchOption(options, value) ==
    LET value_str == Strip(Lower(value))
        H1(o) == ExactValue(o, value)
        H2(o) == ExactText(o, value_str)
        H3(o) == PartialText(o, value_str)
        H4(o) == FirstAvailable(o)
        i1 == FirstIndex(options, H1)
        i2 == FirstIndex(options, H2)
        i3 == FirstIndex(options, H3)
        i4 == FirstIndex(options, H4)
    IN  IF i1 # 0 THEN [tier |-> 1, cmd |-> SelectByValue(options[i1])]
        ELSE IF i2 # 0 THEN [tier |-> 2, cmd |-> SelectByValueOrLabel(options[i2])]
        ELSE IF i3 # 0 THEN [tier |-> 3, cmd |-> SelectByValueOrLabel(options[i3])]
        ELSE IF i4 # 0 THEN [tier |-> 4, cmd |-> SelectByValue(options[i4])]
        ELSE [tier |-> 0, cmd |-> [op |-> "none", by |-> "none", arg |-> <<>>]]

\* _fill_select_field(selector, value, field).  The page command may raise;
\* the except clause returns False.
FillSelectField ==
    /\ UNCHANGED fillerOthers
    /\ pwpc = "call"
    /\ pwType = "select"
    /\ LET m == MatchOption(pwOptions, pwValue) IN
       /\ pwTier' = m.tier
       /\ IF m.tier = 0
          THEN /\ pwIssued' = <<>>
               /\ pwReturn' = FALSE
          ELSE /\ pwIssued' = <<m.cmd>>
               /\ pwReturn' \in BOOLEAN
    /\ pwpc' = "returned"
    /\ UNCHANGED <<pwType, pwOptions, pwValue, pwTruthy>>

----------------------------------------------------------------------------
(* PlaywrightMCPClient: _fill_checkbox_field                               *)

\* A Python value given to the checkbox filler: bool(value) and str(value).
PyValue(truthy, str) == [truthy |-> truthy, str |-> str]

\* The strings 'false', 'FALSE', '0', 'no', 'Off', 'true', '1', 'yes',
\* 'anything', ' no ' and '', the booleans True and False, the integer 0.
CheckboxValues ==
    {PyValue(TRUE, <<"f","a","l","s","e">>), PyValue(TRUE, <<"F","A","L","S","E">>), PyValue(TRUE, <<"0">>),
     PyValue(TRUE, <<"n","o">>), PyValue(TRUE, <<"O","f","f">>), PyValue(TRUE, <<"t","r","u","e">>),
     PyValue(TRUE, <<"1">>), PyValue(TRUE, <<"y","e","s">>), PyValue(TRUE, <<"a","n","y","t","h","i","n","g">>),
     PyValue(TRUE, <<" ","n","o"," ">>), PyValue(FALSE, <<>>), PyValue(TRUE, <<"T","r","u","e">>),
     PyValue(FALSE, <<"F","a","l","s","e">>), PyValue(FALSE, <<"0">>)}

\* ['false', '0', 'no', 'off'] of line 250
FalseWords == {<<"f","a","l","s","e">>, <<"0">>, <<"n","o">>, <<"o","f","f">>}

\* A variant that compares the value as it is written.
ShouldCheckCaseSensitive(truthy, str) == truthy /\ str \notin FalseWords

\* should_check (line 250)
ShouldCheck(truthy, str) == truthy /\ Lower(str) \notin FalseWords

\* _fill_checkbox_field(selector, value).  page.check / page.uncheck may
\* raise; the except clause returns False.
FillCheckboxField ==
    /\ UNCHANGED fillerOthers
    /\ pwpc = "call"
    /\ pwType = "checkbox"
    /\ pwIssued' = <<[op |-> IF ShouldCheck(pwTruthy, pwValue) THEN "check" ELSE "uncheck",
                     by |-> "selector", arg |-> <<>>]>>
    /\ pwReturn' \in BOOLEAN
    /\ pwpc' = "returned"
    /\ UNCHANGED <<pwType, pwOptions, pwValue, pwTruthy, pwTier>>

----------------------------------------------------------------------------
(* PlaywrightMCPClient: _fill_date_field                                   *)

\* str.zfill(2): pad on the left with '0' to two characters, after a
\* leading sign if there is one.
Zfill2(s) ==
    IF Len(s) >= 2 THEN s
    ELSE IF Len(s) = 0 THEN <<"0", "0">>
    ELSE IF s[1] \in {"+", "-"} THEN s \o <<"0">>
    ELSE <<"0">> \o s

DateValues ==
    {<<"1","2","/","3","1","/","2","0","2","3">>, <<"1","/","2","/","2","0","2","3">>, <<"2","0","2","3","-","1","2","-","3","1">>, <<"1","2","/","3","1","/","2","3">>, <<"2","0","2","3","/","1","2","/","3","1">>,
     <<"3","1",".","1","2",".","2","0","2","3">>, <<"1","/","2","/","3","/","2","0","2","3">>, <<"1","2","/","2","0","2","3">>, <<"a","/","b","/","c","d","e","f">>, <<"/","/","2","0","2","3">>, <<>>}

\* A variant that writes the day before the month.
NormalizeDateDayFirst(date_str) ==
    LET parts == Split(date_str, "/") IN
    IF Len(parts) = 3 /\ Len(parts[3]) = 4
    THEN parts[3] \o <<"-">> \o Zfill2(parts[2]) \o <<"-">> \o Zfill2(parts[1])
    ELSE date_str

\* Lines 351-356: MM/DD/YYYY to YYYY-MM-DD.
NormalizeDate(date_str) ==
    LET parts == Split(date_str, "/") IN
    IF Len(parts) = 3 /\ Len(parts[3]) = 4
    THEN parts[3] \o <<"-">> \o Zfill2(parts[1]) \o <<"-">> \o Zfill2(parts[2])
    ELSE date_str

\* _fill_date_field(selector, value).  page.fill may raise; the except
\* clause returns False.
FillDateField ==
    /\ UNCHANGED fillerOthers
    /\ pwpc = "call"
    /\ pwType = "date"
    /\ pwIssued' = <<[op |-> "fill", by |-> "selector", arg |-> NormalizeDate(pwValue)]>>
    /\ pwReturn' \in BOOLEAN
    /\ pwpc' = "returned"
    /\ UNCHANGED <<pwType, pwOptions, pwValue, pwTruthy, pwTier>>

----------------------------------------------------------------------------
(* PlaywrightMCPClient: _fill_time_field                                   *)

\* '930', '1430', '0905', '14:30', '9:30', '12', '123456', 'noon' and ''.
TimeValues ==
    {<<"9","3","0">>, <<"1","4","3","0">>, <<"0","9","0","5">>,
     <<"1","4",":","3","0">>, <<"9",":","3","0">>, <<"1","2">>,
     <<"1","2","3","4","5","6">>, <<"n","o","o","n">>, <<>>}

\* Lines 369-372: a value without a colon and at least three characters
\* long becomes time_str[:2] + ':' + time_str[2:4].
NormalizeTime(time_str) ==
    IF ~Contains(<<":">>, time_str) /\ Len(time_str) >= 3
    THEN SubSeq(time_str, 1, 2) \o <<":">> \o SubSeq(time_str, 3, Min(4, Len(time_str)))
    ELSE time_str

\* _fill_time_field(selector, value).  page.fill may raise; the except
\* clause returns False.
FillTimeField ==
    /\ UNCHANGED fillerOthers
    /\ pwpc = "call"
    /\ pwType = "time"
    /\ pwIssued' = <<[op |-> "fill", by |-> "selector", arg |-> NormalizeTime(pwValue)]>>
    /\ pwReturn' \in BOOLEAN
    /\ pwpc' = "returned"
    /\ UNCHANGED <<pwType, pwOptions, pwValue, pwTruthy, pwTier>>

FillerInit ==
    /\ \/ /\ pwType = "select"
          /\ pwOptions \in OptionLists
          /\ pwValue \in SelectValues
          /\ pwTruthy = TRUE
       \/ /\ pwType = "checkbox"
          /\ pwOptions = <<>>
          /\ \E v \in CheckboxValues : pwValue = v.str /\ pwTruthy = v.truthy
       \/ /\ pwType = "date"
          /\ pwOptions = <<>>
          /\ pwValue \in DateValues
          /\ pwTruthy = (pwValue # <<>>)
       \/ /\ pwType = "time"
          /\ pwOptions = <<>>
          /\ pwValue \in TimeValues
          /\ pwTruthy = (pwValue # <<>>)
    /\ pwIssued = <<>>
    /\ pwTier = 0
    /\ pwReturn = FALSE
    /\ pwpc = "call"

FillerIdle ==
    /\ pwType = "none"
    /\ pwOptions = <<>>
    /\ pwValue = <<>>
    /\ pwTruthy = FALSE
    /\ pwIssued = <<>>
    /\ pwTier = 0
    /\ pwReturn = FALSE
    /\ pwpc = "idle"

FillerNext == FillSelectField \/ FillCheckboxField \/ FillDateField \/ FillTimeField

----------------------------------------------------------------------------
(* DataGenerator._determine_data_type, called on its own *)

\* The raw types the classifier is called with (already lowercased by
\* _generate_field_value).
RawTypes ==
    {"email", "password", "tel", "phone", "date", "datetime-local", "time",
     "number", "range", "url", "file", "select", "select-one", "checkbox",
     "radio", "textarea", "text", "search", "hidden"}

L_email_address == <<"e","m","a","i","l"," ","a","d","d","r","e","s","s">>
L_full_name == <<"f","u","l","l"," ","n","a","m","e">>
L_date_of_birth == <<"d","a","t","e"," ","o","f"," ","b","i","r","t","h">>
L_mobile == <<"m","o","b","i","l","e">>
L_pwd == <<"p","w","d">>
L_amount == <<"a","m","o","u","n","t">>
L_link == <<"l","i","n","k">>
L_comment == <<"c","o","m","m","e","n","t">>
L_zip == <<"z","i","p">>

Labels ==
    {<<>>, L_email_address, L_full_name, L_date_of_birth, L_mobile, L_pwd,
     L_amount, L_link, L_comment, L_zip}

N_user_email == <<"u","s","e","r","_","e","m","a","i","l">>
N_telephone == <<"t","e","l","e","p","h","o","n","e">>
N_q == <<"q">>

Names == {<<>>, N_user_email, N_telephone, N_q}

\* data_type = self._determine_data_type(field_type, field_label, field_name)
Classify ==
    /\ UNCHANGED classOthers
    /\ dpc = "call"
    /\ classified' = DetermineDataType(argType, argLabel, argName)
    /\ dpc' = "returned"
    /\ UNCHANGED <<argType, argLabel, argName>>

ClassInit ==
    /\ argType \in RawTypes
    /\ argLabel \in Labels
    /\ argName \in Names
    /\ classified = "<None>"
    /\ dpc = "call"

ClassIdle ==
    /\ argType = "text"
    /\ argLabel = <<>>
    /\ argName = <<>>
    /\ classified = "<None>"
    /\ dpc = "idle"

ClassNext == Classify

----------------------------------------------------------------------------
(* AIService: batch_generate_field_values, generate_field_value and        *)
(* _call_gemini                                                            *)

\* A raw model response, described by what the parsing approaches make of
\* it:
\*   whole    json.loads(response): "object" (a dict), "scalar" (a number:
\*            not None, not a container), "null" (None), "fail"
\*            (JSONDecodeError)
\*   block    re.search(r'\{.*\}', response) and json.loads of the match:
\*            "object", "fail" (JSONDecodeError), "nomatch"
\*   cleaned  the same after the two re.sub of approach 4
Response(whole, block, cleaned) ==
    [whole |-> whole, block |-> block, cleaned |-> cleaned]

\* '{"a": "x"}'
R_json == Response("object", "object", "object")
\* '42'
R_number == Response("scalar", "nomatch", "nomatch")
\* 'null'
R_null == Response("null", "nomatch", "nomatch")
\* '```json\n{"a": "x"}\n```'
R_fenced == Response("fail", "object", "object")
\* "{'a': 1}"
R_single_quoted == Response("fail", "fail", "object")
\* 'Sorry, I cannot help with that'
R_prose == Response("fail", "nomatch", "nomatch")
\* '{a b}'
R_braces == Response("fail", "fail", "fail")

NoResponse == Response("none", "none", "none")

Responses ==
    {R_json, R_number, R_null, R_fenced, R_single_quoted, R_prose, R_braces}

\* Whether an except clause for `handler` catches an exception of class exc
\* (all the classes here derive from Exception).
Caught(handler, exc) == handler = "Exception" \/ handler = exc

\* A variant in which the outermost handler of the batch call is as narrow
\* as the inner ones.
OuterHandlerJsonOnly == "JSONDecodeError"

\* `except Exception as e:` at line 556
OuterHandler == "Exception"

\* re.search(r'(\{(?:[^{}]|(?1))*\})', ...) at line 494: Python's re has no
\* (?1), and compiling the pattern raises re.error.
RecursivePatternCompiles == FALSE

Extracted(outcome, exc, tried, by) ==
    [outcome |-> outcome, exc |-> exc, tried |-> tried, by |-> by]

\* Lines 472-523: the parsing approaches, applied to the response r.
\*   outcome "object" / "scalar": result is that value, found by `by`
\*   outcome "empty": return {} (line 518 or 523)
\*   outcome "raise": exception exc left the approach
ExtractJson(r) ==
    IF r.whole \in {"object", "scalar"}
    THEN Extracted(r.whole, "none", {1}, 1)
    ELSE IF r.block = "object"
    THEN Extracted("object", "none", {1, 2}, 2)
    ELSE IF ~RecursivePatternCompiles
    THEN Extracted("raise", "re.error", {1, 2, 3}, 0)
    ELSE IF r.cleaned = "object"
    THEN Extracted("object", "none", {1, 2, 3, 4}, 4)
    ELSE Extracted("empty", "none", {1, 2, 3, 4}, 0)

AIReturn(kind, map) == [kind |-> kind, map |-> map]

Pending == AIReturn("pending", EmptyMap)
ReturnedNone == AIReturn("none", EmptyMap)
ReturnedText == AIReturn("text", EmptyMap)
Raised == AIReturn("raise", EmptyMap)

\* What the batch call does with an exception of class exc raised inside
\* the try block of line 465: `except json.JSONDecodeError` (line 551), then
\* the outer handler (line 556); both return {}.
BatchOnException(exc) ==
    IF Caught("JSONDecodeError", exc) \/ Caught(OuterHandler, exc)
    THEN AIReturn("map", EmptyMap)
    ELSE Raised

\* What _call_gemini can return: None after an exception of the model call
\* (caught at line 313) or for a response without text; otherwise
\* response.text.strip(), which is '' for a text of white space only.
GeminiOutcomes == {"error", "no_text", "blank", "text"}

\* batch_generate_field_values, lines 330-462: the guard, the prompt and
\* the model call.
BatchCall ==
    /\ UNCHANGED aiOthers
    /\ aipc = "call"
    /\ aiOp = "batch"
    /\ IF ~available \/ aiFields = <<>>
       THEN /\ aiResult' = AIReturn("map", EmptyMap)
            /\ aiFailure' = IF available THEN "none" ELSE "unavailable"
            /\ aipc' = "returned"
            /\ UNCHANGED response
       ELSE \E o \in GeminiOutcomes :
               IF o = "text"
               THEN /\ response' \in Responses
                    /\ aipc' = "parse"
                    /\ UNCHANGED <<aiResult, aiFailure>>
               ELSE /\ aiResult' = AIReturn("map", EmptyMap)
                    /\ aiFailure' = IF o = "error" THEN "call_error"
                                    ELSE "empty_response"
                    /\ aipc' = "returned"
                    /\ UNCHANGED response
    /\ UNCHANGED <<aiOp, available, aiFields, aiTried, aiParsedBy>>

\* batch_generate_field_values, lines 464-558: parse the response and build
\* the map of field values.
BatchParse ==
    /\ UNCHANGED aiOthers
    /\ aipc = "parse"
    /\ LET x == ExtractJson(response) IN
       /\ aiTried' = x.tried
       /\ aiParsedBy' = x.by
       /\ CASE x.outcome = "object" ->
                 /\ \E m \in BatchGenerateFieldValues(aiFields) :
                       aiResult' = AIReturn("map", m)
                 /\ aiFailure' = "none"
            [] x.outcome = "scalar" ->
                 \* `field_id in result` on a number raises TypeError
                 /\ aiResult' = BatchOnException("TypeError")
                 /\ aiFailure' = "malformed"
            [] x.outcome = "raise" ->
                 /\ aiResult' = BatchOnException(x.exc)
                 /\ aiFailure' = "strategy_error"
            [] x.outcome = "empty" ->
                 /\ aiResult' = AIReturn("map", EmptyMap)
                 /\ aiFailure' = "malformed"
    /\ aipc' = "returned"
    /\ UNCHANGED <<aiOp, available, aiFields, response>>

\* generate_field_value, lines 156-208.
SingleCall ==
    /\ UNCHANGED aiOthers
    /\ aipc = "call"
    /\ aiOp = "single"
    /\ IF ~available
       THEN /\ aiResult' = ReturnedNone
            /\ aiFailure' = "unavailable"
       ELSE \E o \in GeminiOutcomes :
               /\ aiResult' = IF o \in {"error", "no_text"} THEN ReturnedNone
                              ELSE ReturnedText
               /\ aiFailure' = CASE o = "error" -> "call_error"
                                 [] o = "no_text" -> "empty_response"
                                 [] OTHER -> "none"
    /\ aipc' = "returned"
    /\ UNCHANGED <<aiOp, available, aiFields, response, aiTried, aiParsedBy>>

AIInit ==
    /\ aiOp \in {"batch", "single"}
    /\ available \in BOOLEAN
    /\ aiFields \in Forms
    /\ response = NoResponse
    /\ aiFailure = "none"
    /\ aiTried = {}
    /\ aiParsedBy = 0
    /\ aiResult = Pending
    /\ aipc = "call"

AIIdle ==
    /\ aiOp = "none"
    /\ available = FALSE
    /\ aiFields = <<>>
    /\ response = NoResponse
    /\ aiFailure = "none"
    /\ aiTried = {}
    /\ aiParsedBy = 0
    /\ aiResult = Pending
    /\ aipc = "idle"

AINext == BatchCall \/ BatchParse \/ SingleCall

----------------------------------------------------------------------------
(* DataGenerator.generate_invalid_data *)

Scenarios ==
    {"empty_required_fields", "invalid_email", "invalid_phone",
     "sql_injection_attempt", "xss_attempt", "boundary_values", "happy_path"}

\* What generate_validation_test_data can return: None (service failure or
\* no text), '' (a text of white space only, stripped) or a text.
ValidationTestData == {NoValue, Value("", 0), Value("ai_invalid", 0)}

\* _generate_invalid_field_value(field, scenario, page_context): the
\* outcomes it can have, as for _generate_field_value, each with the
\* source of the value.
InvalidFieldValue(field, scen, credentials) ==
    LET override(v) == {[kind |-> "value", v |-> v, source |-> "scenario"]}
        normal == {[kind |-> r.kind, v |-> r.v, source |-> "normal"] :
                      r \in GenerateFieldValue(field, credentials)}
    IN  CASE scen = "empty_required_fields" ->
                IF field.required THEN override(Value("", 0)) ELSE normal
          [] scen = "invalid_email" ->
                IF field.type = "email" \/ Contains(s_email, Lower(field.label))
                THEN override(Value("invalid-email-format", 0)) ELSE normal
          [] scen = "invalid_phone" ->
                IF field.type \in {"tel", "phone"} \/ Contains(s_phone, Lower(field.label))
                THEN override(Value("not-a-phone-number", 0)) ELSE normal
          [] scen = "sql_injection_attempt" ->
                override(Value("'; DROP TABLE users; --", 0))
          [] scen = "xss_attempt" ->
                override(Value("<script>alert('XSS')</script>", 0))
          [] scen = "boundary_values" ->
                IF field.maxlength # Absent
                THEN override(Value("x", field.maxlength + 10))
                ELSE IF field.type = "number"
                THEN override(Value("999999999", 0))
                ELSE normal
          [] OTHER -> normal

\* One iteration of the loop of generate_invalid_data (lines 153-170).
InvField ==
    /\ UNCHANGED invOthers
    /\ gpc = "inv_loop"
    /\ gi <= Len(form)
    /\ LET field == form[gi]
           field_name == FieldName(field)
       IN  IF ~Truthy(field_name)
           THEN /\ gi' = gi + 1
                /\ UNCHANGED <<gpc, invalid_data, invSource>>
           ELSE \E ai \in IF aiAvailable THEN ValidationTestData ELSE {NoValue} :
                   IF ai # NoValue
                   THEN /\ invalid_data' = Put(invalid_data, field_name, ai)
                        /\ invSource' = Put(invSource, field_name, "ai")
                        /\ gi' = gi + 1
                        /\ UNCHANGED gpc
                   ELSE \E r \in InvalidFieldValue(field, scenario, creds) :
                           IF r.kind = "raise"
                           THEN /\ gpc' = "raised"
                                /\ UNCHANGED <<gi, invalid_data, invSource>>
                           ELSE IF r.kind = "none"
                           THEN /\ gi' = gi + 1
                                /\ UNCHANGED <<gpc, invalid_data, invSource>>
                           ELSE /\ invalid_data' = Put(invalid_data, field_name, r.v)
                                /\ invSource' = Put(invSource, field_name, r.source)
                                /\ gi' = gi + 1
                                /\ UNCHANGED gpc
    /\ UNCHANGED <<form, creds, aiAvailable, scenario>>

\* return invalid_data (line 172)
InvReturn ==
    /\ UNCHANGED invOthers
    /\ gpc = "inv_loop"
    /\ gi > Len(form)
    /\ gpc' = "done"
    /\ UNCHANGED <<form, creds, aiAvailable, gi, invVars>>

NoSources == [k \in {} |-> "none"]

InvInit ==
    /\ form \in Forms
    /\ creds \in {<<>>, <<C_username, C_password>>}
    /\ aiAvailable \in BOOLEAN
    /\ scenario \in Scenarios
    /\ gpc = "inv_loop"
    /\ gi = 1
    /\ batch_results = EmptyMap
    /\ form_data = EmptyMap
    /\ aiCalls = <<>>
    /\ invalid_data = EmptyMap
    /\ invSource = NoSources

InvIdle ==
    /\ scenario = "none"
    /\ invalid_data = EmptyMap
    /\ invSource = NoSources

InvNext == InvField \/ InvReturn

----------------------------------------------------------------------------
(* DataGenerator._generate_checkbox_value and _generate_password, called   *)
(* on their own                                                            *)

\* Labels of checkbox fields: 'I agree to the terms', 'Subscribe to our newsletter', 'Required: newsletter consent', 'Mandatory marketing opt-in', 'Remember me', 'Privacy Policy', 'Required'.
CheckboxLabels ==
    {<<"I"," ","a","g","r","e","e"," ","t","o"," ","t","h","e"," ","t","e","r","m","s">>,
     <<"S","u","b","s","c","r","i","b","e"," ","t","o"," ","o","u","r"," ","n","e","w","s","l","e","t","t","e","r">>,
     <<"R","e","q","u","i","r","e","d",":"," ","n","e","w","s","l","e","t","t","e","r"," ","c","o","n","s","e","n","t">>,
     <<"M","a","n","d","a","t","o","r","y"," ","m","a","r","k","e","t","i","n","g"," ","o","p","t","-","i","n">>,
     <<"R","e","m","e","m","b","e","r"," ","m","e">>,
     <<"P","r","i","v","a","c","y"," ","P","o","l","i","c","y">>,
     <<"R","e","q","u","i","r","e","d">>}

\* Their name attributes: 'consent', 'newsletter', 'remember', 'required_optin'; None when the attribute is missing.
CheckboxNames ==
    {<<"c","o","n","s","e","n","t">>,
     <<"n","e","w","s","l","e","t","t","e","r">>,
     <<"r","e","m","e","m","b","e","r">>,
     <<"r","e","q","u","i","r","e","d","_","o","p","t","i","n">>,
     NoneStr}

CheckboxFields ==
    {Field(n, NoneStr, "checkbox", l, FALSE, Absent, Absent) :
        n \in CheckboxNames, l \in CheckboxLabels}

\* minlength and maxlength of password fields, as FormDetector files them
\* under constraints (form_detector.py 220-223): positive integers.
MinLengths == {Absent, 4, 8, 12, 20, 25}
MaxLengths == {Absent, 6, 8, 16, 20, 30}

PasswordFields ==
    {Field(s_password, NoneStr, "password", s_password, TRUE, c[1], c[2]) :
        c \in {d \in MinLengths \X MaxLengths :
                  d[1] = Absent \/ d[2] = Absent \/ d[1] <= d[2]}}

\* What a strategy did: kind "raise" or "value"; checked for a checkbox;
\* the length of a password and the number of its characters per group.
StrategyOut(kind, checked, len, upper, lower, digit, symbol) ==
    [kind |-> kind, checked |-> checked, len |-> len, upper |-> upper,
     lower |-> lower, digit |-> digit, symbol |-> symbol]

StrategyRaised == StrategyOut("raise", FALSE, 0, 0, 0, 0, 0)
NoStrategyOut == StrategyOut("none", FALSE, 0, 0, 0, 0, 0)

\* Lines 489-500: the values _generate_checkbox_value can return for a
\* field context.  random.choice([True, False]) and
\* random.choice([True, True, False]) can both return either.
CheckboxChoices(field_context) ==
    IF AnyIn(<<<<"a","g","r","e","e">>, <<"a","c","c","e","p","t">>, <<"t","e","r","m","s">>, <<"p","r","i","v","a","c","y">>, <<"p","o","l","i","c","y">>>>, field_context) THEN {TRUE}
    ELSE IF AnyIn(<<<<"n","e","w","s","l","e","t","t","e","r">>, s_email, <<"m","a","r","k","e","t","i","n","g">>, <<"p","r","o","m","o","t","i","o","n","a","l">>>>, field_context) THEN {TRUE, FALSE}
    ELSE IF AnyIn(<<<<"r","e","q","u","i","r","e","d">>, <<"m","a","n","d","a","t","o","r","y">>>>, field_context) THEN {TRUE}
    ELSE {TRUE, FALSE}

\* _generate_checkbox_value(field).  field.get('name', '') is None for a
\* field without a name attribute, and None.lower() raises.
GenerateCheckboxValue ==
    /\ UNCHANGED stOthers
    /\ stpc = "call"
    /\ stField.type = "checkbox"
    /\ IF stField.name = NoneStr
       THEN stOut' = StrategyRaised
       ELSE LET field_context ==
                    Lower(Lower(stField.label) \o s_space \o Lower(stField.name))
            IN  \E b \in CheckboxChoices(field_context) :
                    stOut' = StrategyOut("value", b, 0, 0, 0, 0, 0)
    /\ stpc' = "returned"
    /\ UNCHANGED stField

\* _generate_password(field), lines 260-280: random.randint raises
\* ValueError on an empty range; otherwise 2 uppercase, length-6 lowercase,
\* 2 digits and 2 symbols, shuffled.
GeneratePassword ==
    /\ UNCHANGED stOthers
    /\ stpc = "call"
    /\ stField.type = "password"
    /\ IF PasswordLengths(stField) = {}
       THEN stOut' = StrategyRaised
       ELSE \E length \in PasswordLengths(stField) :
               stOut' = StrategyOut("value", FALSE, 2 + (length - 6) + 2 + 2,
                                    2, length - 6, 2, 2)
    /\ stpc' = "returned"
    /\ UNCHANGED stField

StInit ==
    /\ stField \in CheckboxFields \cup PasswordFields
    /\ stOut = NoStrategyOut
    /\ stpc = "call"

StIdle ==
    /\ stField = Field(NoneStr, NoneStr, "none", <<>>, FALSE, Absent, Absent)
    /\ stOut = NoStrategyOut
    /\ stpc = "idle"

StNext == GenerateCheckboxValue \/ GeneratePassword

----------------------------------------------------------------------------
(* AIService._call_gemini and get_api_usage_metrics                        *)

\* The most _call_gemini calls one service instance receives in the model.
MaxCalls == 3

\* What generate_content can do: return a response with text, return one
\* without, or raise.
ExecutorOutcomes == {"text", "empty", "raise"}

\* The counters and the history of one instance.
Counters(count, batch, history) ==
    [count |-> count, batch |-> batch, history |-> history]

\* A variant that files every call as a non-batch call.
TrackCallNeverBatch(c, is_batch, prompt_length) ==
    Counters(c.count + 1,
             IF is_batch THEN c.batch + 1 ELSE c.batch,
             Append(c.history, [is_batch |-> FALSE, prompt_length |-> prompt_length,
                                duration |-> "unset"]))

\* Lines 281-297: the bookkeeping done before the request is handed to the
\* executor.
TrackCall(c, is_batch, prompt_length) ==
    Counters(c.count + 1,
             IF is_batch THEN c.batch + 1 ELSE c.batch,
             Append(c.history, [is_batch |-> is_batch, prompt_length |-> prompt_length,
                                duration |-> "unset"]))

\* _call_gemini(prompt, is_batch) up to its await (lines 278-305).  No
\* other coroutine runs between these statements.
CallGeminiBegin ==
    /\ UNCHANGED mtOthers
    /\ api_call_count < MaxCalls
    /\ \E is_batch \in BOOLEAN :
          LET c == TrackCall(Counters(api_call_count, batch_call_count, api_call_history),
                             is_batch, 1)
          IN  /\ api_call_count' = c.count
              /\ batch_call_count' = c.batch
              /\ api_call_history' = c.history
              /\ inflight' = inflight \cup {Len(c.history)}
    /\ UNCHANGED <<last_call_time, usage>>

\* _call_gemini from the executor's answer on (lines 302-316): the duration
\* is filed unless the request raised; the except clause returns None.
CallGeminiEnd ==
    /\ UNCHANGED mtOthers
    /\ \E i \in inflight, outcome \in ExecutorOutcomes :
          /\ inflight' = inflight \ {i}
          /\ IF outcome = "raise"
             THEN UNCHANGED <<last_call_time, api_call_history>>
             ELSE /\ last_call_time' = i
                  /\ api_call_history' =
                        [api_call_history EXCEPT ![i].duration = "set"]
    /\ UNCHANGED <<api_call_count, batch_call_count, usage>>

\* get_api_usage_metrics(), lines 619-630.
GetApiUsageMetrics ==
    /\ UNCHANGED mtOthers
    /\ LET batch_calls == Cardinality({k \in 1..Len(api_call_history) :
                                          api_call_history[k].is_batch})
           non_batch_calls == api_call_count - batch_calls
       IN  usage' = [called |-> TRUE,
                     total_api_calls |-> api_call_count,
                     batch_calls |-> batch_calls,
                     non_batch_calls |-> non_batch_calls]
    /\ UNCHANGED <<api_call_count, batch_call_count, api_call_history,
                   last_call_time, inflight>>

NoUsage == [called |-> FALSE, total_api_calls |-> 0, batch_calls |-> 0,
            non_batch_calls |-> 0]

\* __init__, lines 26-29.
MtInit ==
    /\ api_call_count = 0
    /\ batch_call_count = 0
    /\ api_call_history = <<>>
    /\ last_call_time = 0
    /\ inflight = {}
    /\ usage = NoUsage

MtNext == CallGeminiBegin \/ CallGeminiEnd \/ GetApiUsageMetrics

----------------------------------------------------------------------------
(* FormGeniusAgent.fill_form: the loop over the forms found on the page    *)

\* The most forms a page of the model holds.
MaxForms == 2

\* The field names a form can have.
FormFieldNames == {"email", "query"}

\* The forms detect_forms can return.
PageForms ==
    UNION {[1..n -> SUBSET FormFieldNames] : n \in 0..MaxForms}

\* A value map: the keys it holds and where it came from: origin 0 for the
\* caller's form_data argument, k for the map generate_form_data returned
\* for form number k.
DataMap(origin, keys) == [isNone |-> FALSE, origin |-> origin, keys |-> keys]

\* form_data = None
NoData == [isNone |-> TRUE, origin |-> 0, keys |-> {}]

\* The form_data arguments of the model: None, {}, and a map for 'email'.
CallerData == {NoData, DataMap(0, {}), DataMap(0, {"email"})}

\* `not form_data`: None and the empty dict are falsy.
Falsy(data) == data.isNone \/ data.keys = {}

\* What generate_form_data(form, page_context) can return for form number
\* k: a value for any of its fields.
GeneratedMaps(k, names) == {DataMap(k, S) : S \in SUBSET names}

\* One iteration of the loop over forms (lines 107-140): generate when
\* form_data is falsy and keep the generated map in form_data, then run
\* every scenario on form_data.  The credential override of lines 116-130
\* replaces values of keys the map already has; it adds and removes none.
MfProcessForm ==
    /\ UNCHANGED mfOthers
    /\ mfpc = "loop"
    /\ mfi <= Len(mfForms)
    /\ \E d \in (IF Falsy(mfFormData)
                 THEN GeneratedMaps(mfi, mfForms[mfi])
                 ELSE {mfFormData}) :
          /\ mfFormData' = d
          /\ mfResults' = mfResults \o
                [s \in 1..mfScenarios |-> [form |-> mfi, data |-> d]]
    /\ mfi' = mfi + 1
    /\ UNCHANGED <<mfForms, mfScenarios, mfpc>>

\* Lines 98-103: no form was detected.
MfNoForms ==
    /\ UNCHANGED mfOthers
    /\ mfpc = "loop"
    /\ mfForms = <<>>
    /\ mfpc' = "no_forms"
    /\ UNCHANGED <<mfForms, mfFormData, mfScenarios, mfResults, mfi>>

\* Lines 142-160: the final result.
MfReturn ==
    /\ UNCHANGED mfOthers
    /\ mfpc = "loop"
    /\ mfForms # <<>>
    /\ mfi > Len(mfForms)
    /\ mfpc' = "done"
    /\ UNCHANGED <<mfForms, mfFormData, mfScenarios, mfResults, mfi>>

MfInit ==
    /\ mfForms \in PageForms
    /\ mfFormData \in CallerData
    /\ mfScenarios \in 1..2
    /\ mfResults = <<>>
    /\ mfi = 1
    /\ mfpc = "loop"

MfIdle ==
    /\ mfForms = <<>>
    /\ mfFormData = NoData
    /\ mfScenarios = 1
    /\ mfResults = <<>>
    /\ mfi = 1
    /\ mfpc = "idle"

MfNext == MfProcessForm \/ MfNoForms \/ MfReturn

----------------------------------------------------------------------------
(* Specifications *)

vars == <<genVars, authVars, fillVars, agentVars, fillerVars, classVars,
          aiVars, invVars,
          stVars,
          mtVars,
          mfVars>>

InitGen == GenInit /\ AuthInit /\ FillIdle /\ AgentIdle /\ FillerIdle /\ ClassIdle /\ AIIdle /\ InvIdle /\ StIdle /\ MtInit /\ MfIdle

SpecGen == InitGen /\ [][GenNext]_vars

InitAuth == AuthInit /\ GenIdle /\ FillIdle /\ AgentIdle /\ FillerIdle /\ ClassIdle /\ AIIdle /\ InvIdle /\ StIdle /\ MtInit /\ MfIdle

SpecAuth == InitAuth /\ [][AuthNext]_vars

InitFill == FillInit /\ GenIdle /\ AuthInit /\ AgentIdle /\ FillerIdle /\ ClassIdle /\ AIIdle /\ InvIdle /\ StIdle /\ MtInit /\ MfIdle

SpecFill == InitFill /\ [][FillNext]_vars

InitAgent == AgentInit /\ GenIdle /\ AuthInit /\ FillIdle /\ FillerIdle /\ ClassIdle /\ AIIdle /\ InvIdle /\ StIdle /\ MtInit /\ MfIdle

SpecAgent == InitAgent /\ [][AgentNext]_vars

InitFiller == FillerInit /\ GenIdle /\ AuthInit /\ FillIdle /\ AgentIdle /\ ClassIdle /\ AIIdle /\ InvIdle /\ StIdle /\ MtInit /\ MfIdle

SpecFiller == InitFiller /\ [][FillerNext]_vars

InitClass ==
    /\ ClassInit /\ GenIdle /\ AuthInit /\ FillIdle /\ AgentIdle
    /\ FillerIdle /\ AIIdle /\ InvIdle
    /\ StIdle
    /\ MtInit
    /\ MfIdle

SpecClass == InitClass /\ [][ClassNext]_vars

InitAI ==
    /\ AIInit /\ GenIdle /\ AuthInit /\ FillIdle /\ AgentIdle
    /\ FillerIdle /\ ClassIdle /\ InvIdle
    /\ StIdle
    /\ MtInit
    /\ MfIdle

SpecAI == InitAI /\ [][AINext]_vars

InitInvalid ==
    /\ InvInit /\ AuthInit /\ FillIdle /\ AgentIdle /\ FillerIdle
    /\ ClassIdle /\ AIIdle
    /\ StIdle
    /\ MtInit
    /\ MfIdle

SpecInvalid == InitInvalid /\ [][InvNext]_vars

InitStrategy ==
    /\ StInit /\ GenIdle /\ AuthInit /\ FillIdle /\ AgentIdle
    /\ FillerIdle /\ ClassIdle /\ AIIdle /\ InvIdle
    /\ MtInit
    /\ MfIdle

SpecStrategy == InitStrategy /\ [][StNext]_vars

InitMetrics ==
    /\ MtInit /\ GenIdle /\ AuthInit /\ FillIdle /\ AgentIdle
    /\ FillerIdle /\ ClassIdle /\ AIIdle /\ InvIdle /\ StIdle
    /\ MfIdle

SpecMetrics == InitMetrics /\ [][MtNext]_vars

InitForms ==
    /\ MfInit /\ GenIdle /\ AuthInit /\ FillIdle /\ AgentIdle
    /\ FillerIdle /\ ClassIdle /\ AIIdle /\ InvIdle /\ StIdle /\ MtInit

SpecForms == InitForms /\ [][MfNext]_vars

----------------------------------------------------------------------------
(* Properties of generate_form_data *)

GenDone == gpc = "done"

\* The fields of the form the batch response gave no value for.
BatchOmitted == {i \in 1..Len(form) : FieldIdForMapping(form, i) \notin DOMAIN batch_results}

\* C1: when generate_form_data has returned, the map holds exactly one value
\* for every field of the form: every field has an entry, and no two fields
\* share one.
C1_OneValuePerField ==
    GenDone =>
        /\ \A i \in 1..Len(form) : FieldName(form[i]) \in DOMAIN form_data
        /\ Cardinality(DOMAIN form_data) = Len(form)

\* C2: when generate_form_data has returned, every field that a credential
\* hint matches holds that hint's value, whatever the batch call returned.
C2_CredentialBeatsBatch ==
    GenDone =>
        \A i \in 1..Len(form) :
            (form[i].name # NoneStr /\ CredentialHits(form[i], creds) # {}) =>
                /\ FieldName(form[i]) \in DOMAIN form_data
                /\ form_data[FieldName(form[i])] =
                     Value(creds[SetMin(CredentialHits(form[i], creds))].value, 0)

\* C3: when generate_form_data has returned with the AI service available,
\* AIService.generate_field_value was called once for each field the batch
\* response omitted, and each such field has an entry in the map.
C3_OneRegenerationPerOmittedField ==
    (GenDone /\ aiAvailable) =>
        /\ Cardinality({k \in 1..Len(aiCalls) : aiCalls[k] = "generate_field_value"})
             = Cardinality(BatchOmitted)
        /\ \A i \in BatchOmitted : FieldName(form[i]) \in DOMAIN form_data

----------------------------------------------------------------------------
(* Properties of MicrosoftAuthenticator *)

\* A URL matches the glob "**/host/**" when it contains the text between
\* the wildcards.
MatchesPattern(indicator, url) ==
    LET parts == Split(indicator, "*")
    IN  \A k \in 1..Len(parts) : Contains(parts[k], url)

MatchesSuccessPattern(url) ==
    \E k \in 1..Len(success_indicators) : MatchesPattern(success_indicators[k], url)

\* The poll loop has ended, and in every iteration it made the page still
\* showed the second-factor prompt, no success marker, and a URL matching no
\* success pattern.
PromptKeptThroughout ==
    /\ two_fa_detected
    /\ pollOutcome # "none"
    /\ pollSeen.allVisible
    /\ ~pollSeen.anyMarker
    /\ \A u \in pollSeen.urls : ~MatchesSuccessPattern(u)

\* C4: if the second-factor prompt stays present for the whole poll window,
\* the loop ends as a timeout after exactly PollBound iterations, each
\* followed by one sleep.
C4_TimeoutAfterExactlyBound ==
    PromptKeptThroughout =>
        /\ pollOutcome = "timeout"
        /\ pollIter = PollBound
        /\ pollSleeps = PollBound

\* C5: the poll loop ends successfully only in an iteration where the URL
\* matches a success pattern, or no second-factor selector is visible and a
\* success marker is present.
C5_SuccessNeedsIndicator ==
    (apc = "verify" /\ pollOutcome = "authenticated") =>
        \/ MatchesSuccessPattern(page_url)
        \/ (~pollSeen.lastVisible /\ pollSeen.lastMarker)

\* C6: after a poll that the second factor never passed, authenticate()
\* returns the failed status, and neither saves the session nor sets
\* is_authenticated.
C6_TimeoutReturnsFailure ==
    PromptKeptThroughout =>
        /\ apc \notin {"save_state", "save_meta", "finish"}
        /\ (apc = "idle" => authResult = Failed)

\* C10: authenticate() returns the cached result only if both files exist,
\* were written by the same authentication, the metadata has not expired,
\* and the validation navigation did not end on a login or sign-in URL.
C10_CacheHitNeedsConsistentPair ==
    [][(apc = "load" /\ apc' = "idle" /\ authResult' = Cached) =>
          /\ stateFile # 0
          /\ cacheFile.auth # 0
          /\ stateFile = cacheFile.auth
          /\ now <= cacheFile.expiry
          /\ ~RedirectedToLogin(page_url')]_vars

----------------------------------------------------------------------------
(* Properties of _fill_form_fields *)

FieldsWhere(state) == {k \in 1..Len(applyLog) : applyLog[k] = state}

ValuedFields == {k \in 1..Len(fValues) : fValues[k] # "<None>"}

----------------------------------------------------------------------------
(* Properties of batch_fill_forms and fill_form *)

\* C8: batch_fill_forms keeps processing after a URL fails.  On return
\* every URL has exactly one entry in results, processed_urls equals
\* total_urls, successful_fills + failed_fills equals processed_urls, the
\* two counters count the entries by their success flag, and success is
\* true exactly when failed_fills is 0.
C8_BatchAccounting ==
    bpc = "done" =>
        /\ Len(report.results) = nUrls
        /\ report.total_urls = nUrls
        /\ report.processed_urls = report.total_urls
        /\ report.successful_fills + report.failed_fills = report.processed_urls
        /\ report.successful_fills =
              Cardinality({k \in 1..Len(report.results) : report.results[k].success})
        /\ report.success <=> (report.failed_fills = 0)

\* C8 witness: a batch of at least two URLs whose first fill failed has
\* returned with an entry for every URL.
C8_ContinuedAfterFailure ==
    /\ bpc = "done"
    /\ nUrls >= 2
    /\ Len(report.results) = nUrls
    /\ ~report.results[1].success
    /\ report.failed_fills >= 1
    /\ ~report.success

\* C9: when fill_form has returned (its result is about to be filed by the
\* caller), none of the client's resources is still open.
C9_ResourcesReleasedOnReturn ==
    bpc = "record" => \A r \in Resources : res[r] # "open"

----------------------------------------------------------------------------
(* Properties of the cache file pair *)

\* C11: at every moment the two cache files form a pair a reader may load:
\* either neither exists, or both exist and were written by the same
\* authentication.  (A reader running _load_cached_auth at a moment where
\* this fails sees one file without the other, or a state file of one
\* authentication with the metadata of another.)
C11_PairReplacedAtomically ==
    /\ (stateFile = 0) <=> (cacheFile.auth = 0)
    /\ stateFile = cacheFile.auth

\* C12: when _load_cached_auth finds both files but the session invalid
\* (the expiry has passed, or the validation navigation ended on a login or
\* signin URL), both cache files are removed before the fresh
\* authentication starts.
C12_InvalidCacheDiscarded ==
    [][(/\ apc = "load" /\ apc' = "fresh"
        /\ stateFile # 0 /\ cacheFile.auth # 0
        /\ \/ now > cacheFile.expiry
           \/ page_url' # page_url /\ RedirectedToLogin(page_url'))
       => (stateFile' = 0 /\ cacheFile'.auth = 0)]_vars

----------------------------------------------------------------------------
(* Properties of explicit form data *)

CoveredFields == {k \in 1..Len(explicitData) : explicitData[k] # "<None>"}

\* C13: when the caller's data covers some fields of the form, each covered
\* field is filled with the caller's value and every other field is still
\* resolved to a value and handed to the filler.
C13_UncoveredFieldsStillResolved ==
    (fpc = "done" /\ CoveredFields # {}) =>
        /\ \A k \in CoveredFields :
              fValues[k] = explicitData[k] /\ applyLog[k] \in {"applied", "failed"}
        /\ \A k \in 1..Len(explicitData) :
              k \notin CoveredFields =>
                 fValues[k] # "<None>" /\ applyLog[k] \in {"applied", "failed"}

----------------------------------------------------------------------------
(* Properties of select option matching *)

\* Whether option o is a hit of tier t for the desired value v.
TierHit(t, o, v) ==
    CASE t = 1 -> ExactValue(o, v)
      [] t = 2 -> ExactText(o, Strip(Lower(v)))
      [] t = 3 -> PartialText(o, Strip(Lower(v)))
      [] t = 4 -> o.value # <<>> /\ o.value # s_select /\ o.value # s_choose

TierHits(t) == {k \in 1..Len(pwOptions) : TierHit(t, pwOptions[k], pwValue)}

\* The options and the desired text of the example.
UsaExample ==
    /\ pwType = "select"
    /\ pwOptions = <<O_placeholder, O_us, O_ca>>
    /\ pwValue = V_USA

----------------------------------------------------------------------------
(* Properties of the field classifier *)

\* The raw types with a direct mapping, and the category of each.
DirectCategory ==
    [t \in {"email", "password", "tel", "phone", "date", "datetime-local",
            "time", "number", "range", "url", "file", "select", "select-one",
            "checkbox", "radio", "textarea"} |->
        CASE t \in {"tel", "phone"} -> "phone"
          [] t \in {"date", "datetime-local"} -> "date"
          [] t \in {"number", "range"} -> "number"
          [] t \in {"select", "select-one"} -> "select"
          [] OTHER -> t]

\* The keyword categories in their priority order.
KeywordPriority ==
    <<[cat |-> "email", kw |-> <<s_email, s_e_mail>>],
      [cat |-> "password", kw |-> <<s_password, s_pwd>>],
      [cat |-> "phone", kw |-> <<s_phone, s_tel, s_mobile>>],
      [cat |-> "name", kw |-> <<s_name, s_first, s_last, s_full>>],
      [cat |-> "date", kw |-> <<s_date, s_birth, s_dob>>],
      [cat |-> "number", kw |-> <<s_age, s_year, s_number, s_amount>>],
      [cat |-> "url", kw |-> <<s_website, s_url, s_link>>],
      [cat |-> "textarea", kw |-> <<s_message, s_comment, s_description>>]>>

Categories ==
    {"email", "password", "phone", "date", "time", "number", "url", "file",
     "select", "checkbox", "radio", "textarea", "name", "text"}

\* C15: _determine_data_type always returns a category; a raw type with a
\* direct mapping gets that category whatever the label and name say;
\* otherwise the lowercased "label name" text is scanned in the order
\* email, password, phone, name, date, number, url, textarea and the first
\* category with a keyword occurring in it is returned, text if none; a
\* text field labelled 'email address' is an email field.
C15_ClassifierPriority ==
    dpc = "returned" =>
        LET text == Lower(argLabel \o <<" ">> \o argName)
            hits == {k \in 1..Len(KeywordPriority) :
                        \E j \in 1..Len(KeywordPriority[k].kw) :
                            Contains(KeywordPriority[k].kw[j], text)}
        IN  /\ classified \in Categories
            /\ argType \in DOMAIN DirectCategory =>
                  classified = DirectCategory[argType]
            /\ (argType \notin DOMAIN DirectCategory /\ hits # {}) =>
                  classified = KeywordPriority[SetMin(hits)].cat
            /\ (argType \notin DOMAIN DirectCategory /\ hits = {}) =>
                  classified = "text"
            /\ (argType = "text" /\ argLabel = L_email_address) =>
                  classified = "email"

\* C15 witness: a text field labelled 'email address' whose name is
\* 'telephone' (keywords of the email and of the later phone category) was
\* classified as email.
C15_EmailAddressIsEmail ==
    /\ dpc = "returned"
    /\ argType = "text"
    /\ argLabel = L_email_address
    /\ argName = N_telephone
    /\ classified = "email"

----------------------------------------------------------------------------
(* Properties of the AI service boundary *)

C17_FourthStrategyAttempted ==
    (/\ aipc = "returned" /\ aiOp = "batch"
     /\ response.whole \in {"fail", "null"}
     /\ response.block \in {"fail", "nomatch"}) =>
        /\ 4 \in aiTried
        /\ response.cleaned = "object" => (aiParsedBy = 4 /\ aiFailure = "none")

----------------------------------------------------------------------------
(* Properties of generate_invalid_data *)

\* The fields of the form that have a name or an id.
NamedFields == {k \in 1..Len(form) : Truthy(FieldName(form[k]))}

\* C18: under 'empty_required_fields', when generate_invalid_data returns,
\* every required field holds the empty string and every optional field
\* holds a normally resolved value, whether or not the AI service is
\* available.
C18_EmptyRequiredOnly ==
    (gpc = "done" /\ scenario = "empty_required_fields") =>
        \A k \in NamedFields :
            LET key == FieldName(form[k]) IN
            /\ key \in DOMAIN invalid_data
            /\ IF form[k].required
               THEN invalid_data[key] = Value("", 0)
               ELSE invSource[key] = "normal"

----------------------------------------------------------------------------
(* Properties of date normalization *)

SlashPositions(s) == {k \in 1..Len(s) : s[k] = "/"}

IsDigits(s) == \A k \in 1..Len(s) : s[k] \in {"0","1","2","3","4","5","6","7","8","9"}

\* The text after the last '/' of s.
LastSegment(s) ==
    LET p == CHOOSE k \in SlashPositions(s) : \A j \in SlashPositions(s) : j <= k
    IN  SubSeq(s, p + 1, Len(s))

\* The date written by the date filler.
DateFilled == pwIssued[1].arg

----------------------------------------------------------------------------
(* Properties of checkbox application *)

\* C20: _fill_checkbox_field issues exactly one page command per call:
\* uncheck for each of 'false', '0', 'no', 'off' in any letter case, check
\* for any other non-empty string.
C20_CheckboxTruthiness ==
    (pwpc = "returned" /\ pwType = "checkbox") =>
        /\ Len(pwIssued) = 1
        /\ pwIssued[1].op \in {"check", "uncheck"}
        /\ pwValue \in {<<"f","a","l","s","e">>, <<"F","A","L","S","E">>, <<"0">>, <<"n","o">>, <<"O","f","f">>} =>
              pwIssued[1].op = "uncheck"
        /\ (pwTruthy /\ pwValue \in {<<"t","r","u","e">>, <<"1">>, <<"y","e","s">>, <<"a","n","y","t","h","i","n","g">>, <<"T","r","u","e">>, <<" ","n","o"," ">>}) =>
              pwIssued[1].op = "check"
        /\ (pwTruthy /\ pwValue # <<>> /\ Lower(pwValue) \notin {<<"f","a","l","s","e">>, <<"0">>, <<"n","o">>, <<"o","f","f">>}) =>
              pwIssued[1].op = "check"

\* C20 witness: the value 'FALSE' unchecked the box.
C20_UpperFalseUnchecks ==
    /\ pwpc = "returned"
    /\ pwType = "checkbox"
    /\ pwValue = <<"F","A","L","S","E">>
    /\ pwIssued = <<[op |-> "uncheck", by |-> "selector", arg |-> <<>>]>>
    /\ pwReturn

----------------------------------------------------------------------------
(* C21 *)

\* C21: a hint is applied only to a field of the hint's role: the value of a
\* hint whose type is 'username' is never filed as the value of the field
\* named 'password' and labelled 'User password', whatever the order of the
\* hints.
C21_UsernameHintNeverFillsPassword ==
    \A c \in 1..Len(creds) :
        (creds[c].type = s_username /\ s_password \in DOMAIN form_data)
            => form_data[s_password].text # creds[c].value

----------------------------------------------------------------------------
(* C22 *)

\* The placeholder keywords the last tier is said to skip.
PlaceholderKeywords ==
    {s_select, s_choose, <<"p","i","c","k">>, <<"-","-","-">>}

\* C22: when _fill_select_field has returned and the last tier selected,
\* the option it selected has a value that is non-empty and is none of
\* select, choose, pick, ---; and when no tier selected, the call returned
\* failure.
C22_LastTierSkipsPlaceholders ==
    (pwpc = "returned" /\ pwType = "select") =>
        /\ pwTier = 4 =>
              /\ pwIssued[1].arg # <<>>
              /\ pwIssued[1].arg \notin PlaceholderKeywords
        /\ pwTier = 0 => (pwIssued = <<>> /\ pwReturn = FALSE)

----------------------------------------------------------------------------
(* C23 *)

DigitValue(c) == CHOOSE n \in 0..9 : DigitChars[n + 1] = c

\* s is HH:MM: two digits, a colon, two digits, hour below 24 and minute
\* below 60.
IsValidTime(s) ==
    /\ Len(s) = 5
    /\ s[3] = ":"
    /\ IsDigits(<<s[1], s[2], s[4], s[5]>>)
    /\ 10 * DigitValue(s[1]) + DigitValue(s[2]) < 24
    /\ 10 * DigitValue(s[4]) + DigitValue(s[5]) < 60

\* C23: when _fill_time_field has returned, a value of three or four digits
\* without a colon was filled as a valid HH:MM ('930' as '09:30', '1430' as
\* '14:30'), and a value containing a colon was filled unchanged.
C23_TimeNormalized ==
    (pwpc = "returned" /\ pwType = "time") =>
        LET filled == pwIssued[1].arg IN
        /\ (Len(pwValue) \in {3, 4} /\ IsDigits(pwValue)) => IsValidTime(filled)
        /\ pwValue = <<"9","3","0">> => filled = <<"0","9",":","3","0">>
        /\ pwValue = <<"1","4","3","0">> => filled = <<"1","4",":","3","0">>
        /\ Contains(<<":">>, pwValue) => filled = pwValue

----------------------------------------------------------------------------
(* C24, C25 *)

AgreementKeywords ==
    <<<<"a","g","r","e","e">>, <<"a","c","c","e","p","t">>, <<"t","e","r","m","s">>,
      <<"p","r","i","v","a","c","y">>, <<"p","o","l","i","c","y">>,
      <<"r","e","q","u","i","r","e","d">>, <<"m","a","n","d","a","t","o","r","y">>>>

\* C24: when _generate_checkbox_value has returned for a field whose
\* label+name context contains one of agree, accept, terms, privacy, policy,
\* required, mandatory, it returned true, whether or not the context also
\* holds a marketing keyword.
C24_RequiredAlwaysChecked ==
    (stpc = "returned" /\ stField.type = "checkbox" /\ stField.name # NoneStr
     /\ AnyIn(AgreementKeywords,
              Lower(Lower(stField.label) \o s_space \o Lower(stField.name))))
        => (stOut.kind = "value" /\ stOut.checked = TRUE)

\* C25: when _generate_password has returned for a field whose declared
\* constraints satisfy minlength <= maxlength, it did not raise, and the
\* password's length L lies within the declared bounds and is made of 2
\* uppercase, 2 digit, 2 symbol and L-6 lowercase characters.
C25_PasswordHonoursConstraints ==
    (stpc = "returned" /\ stField.type = "password"
     /\ stField.minlength # Absent /\ stField.maxlength # Absent
     /\ stField.minlength <= stField.maxlength) =>
        /\ stOut.kind = "value"
        /\ stField.minlength <= stOut.len
        /\ stOut.len <= stField.maxlength
        /\ stOut.upper = 2 /\ stOut.digit = 2 /\ stOut.symbol = 2
        /\ stOut.lower = stOut.len - 6

----------------------------------------------------------------------------
(* C26 *)

\* C26: one generate_form_data pass makes at most one batch generation
\* call, and its calls to the generative model are the two made before the
\* loop over the fields (the form analysis and the batch call) however many
\* fields the form has.
C26_RoundTripsIndependentOfFields ==
    /\ Cardinality({k \in 1..Len(aiCalls) :
                       aiCalls[k] = "batch_generate_field_values"}) <= 1
    /\ Len(aiCalls) <= 2

----------------------------------------------------------------------------
(* C27 *)

\* The bookkeeping of the service instance is consistent.
CountersConsistent ==
    /\ api_call_count = Len(api_call_history)
    /\ batch_call_count = Cardinality({k \in 1..Len(api_call_history) :
                                          api_call_history[k].is_batch})
    /\ usage.batch_calls + usage.non_batch_calls = usage.total_api_calls

\* C27: every _call_gemini call, whether its request succeeds or fails,
\* adds exactly one to api_call_count and exactly one record to
\* api_call_history, and nothing else changes either; so at all times
\* api_call_count = len(api_call_history), the counter never decreases,
\* batch_call_count is the number of history records with is_batch true,
\* and the metrics report batch_calls + non_batch_calls = total_api_calls.
C27_CountersTrackHistory ==
    /\ []CountersConsistent
    /\ [][/\ api_call_count' >= api_call_count
          /\ Len(api_call_history') - Len(api_call_history)
                = api_call_count' - api_call_count
          /\ api_call_count' - api_call_count \in {0, 1}
          /\ (inflight' \ inflight # {}) => api_call_count' = api_call_count + 1]_vars

\* C27 witness: three calls were made, one of them a batch call, one of
\* them failed (no duration was filed for it), none is still waiting, and
\* the metrics were read after the third.
C27_ThreeCallsOneFailed ==
    /\ api_call_count = 3
    /\ batch_call_count = 1
    /\ inflight = {}
    /\ \E k \in 1..3 : api_call_history[k].duration = "unset"
    /\ usage.called /\ usage.total_api_calls = 3

----------------------------------------------------------------------------
(* C28, C30 *)

\* C28: logout() destroys the session.  Whenever logout() was the call that
\* returned last, on every path through it, neither cache file exists and
\* is_authenticated is false, so that the next authenticate() without
\* force_reauth finds no cache to load and authenticates afresh.
C28_LogoutDestroysSession ==
    (apc = "idle" /\ lastCall = "logout") =>
        /\ stateFile = 0
        /\ cacheFile.auth = 0
        /\ is_authenticated = FALSE

\* C30: is_authenticated reflects the last authenticate() call.  Whenever
\* authenticate() was the call that returned last and it returned
\* success = false, is_authenticated is false, also after an earlier
\* successful call on the same instance.
C30_FailedAuthenticateClearsFlag ==
    (apc = "idle" /\ lastCall = "authenticate" /\ ~authResult.success)
        => is_authenticated = FALSE

----------------------------------------------------------------------------
(* C29 *)

\* C29: when the caller supplied no data, every scenario run of fill_form
\* used, for form number k, the map generate_form_data returned for form
\* number k, never the map generated for an earlier form of the page.
C29_EachFormOwnResolution ==
    \A r \in 1..Len(mfResults) :
        mfResults[r].data.origin # 0
            => mfResults[r].data.origin = mfResults[r].form

============================================================================
